---- MODULE Spec2Model ----
(***************************************************************************)
(* Model of the native-monitor traffic core:                               *)
(*   - stats.TrafficCollector (Start / Stop / collectLoop / cleanupLoop,   *)
(*     collectOnce, saveRecords, updateDailyStats, GetDailyStats),         *)
(*   - network.GetRealTimeSpeedWithInterval and its package-level cache,   *)
(*   - disk.GetDiskSpeedWithInterval and calculateDiskSpeed.               *)
(*                                                                         *)
(* Three specifications share the variables:                               *)
(*   SpecSched   : the collector's state machine and its two goroutines,   *)
(*   SpecRate    : the rate estimators called directly,                    *)
(*   SpecCollect : one collector's sampling tick and the day-bucket store. *)
(* Further specifications: SpecCalendar, SpecRollup (the weekly, monthly    *)
(* and recent rollups), SpecRetention and SpecDir (cleanup), SpecRace       *)
(* (concurrent callers of the network estimator) and SpecMonitor           *)
(* (network.MonitorRealTime).                                              *)
(* Time is counted in whole seconds; a time.Time is a natural number and   *)
(* the zero time.Time is ZeroTime.                                         *)
(***************************************************************************)
EXTENDS Integers, Sequences, FiniteSets, TLC

\* ------------------------------------------------------------------------
\* Bounds of the model
\* ------------------------------------------------------------------------

\* Successful Start calls on one collector (each launches a pair of loops).
MaxStarts == 2

\* ------------------------------------------------------------------------
\* State
\* ------------------------------------------------------------------------

VARIABLES
    \* stats.TrafficCollector
    isCollecting,   \* tc.isCollecting
    stopChan,       \* tc.stopChan: "open" or "closed" (made once, in NewTrafficCollector)
    started,        \* number of loop pairs launched by Start so far
    collectPc,      \* position of each collectLoop goroutine
    cleanupPc,      \* position of each cleanupLoop goroutine
    lastCall,       \* the most recent Start/Stop call: what it returned, and tc.isCollecting before it
    panicked,       \* a Stop call panicked (close of a closed channel)
    \* the wall clock: the latest reading of time.Now()
    now,
    \* package network
    lastNetworkStats,       \* the cached map of the previous call (NilMap at start)
    lastNetworkStatsTime,   \* when it was cached (ZeroTime at start)
    \* package disk
    lastDiskIOStats,        \* the cached map of the previous call (NilMap at start)
    lastDiskIOStatsTime,    \* when it was cached (ZeroTime at start)
    diskPc,                 \* "idle", or "sleep": a GetDiskSpeedWithInterval call is in time.Sleep
    \* tc.dataDir: the day-bucket files, keyed by the date in their name
    files,
    \* tc.retentionDays, as given to NewTrafficCollector
    retentionDays,
    \* time.Local: its offset from UTC, in seconds
    location,
    \* number of collectOnce calls made so far
    ticks,
    \* the most recent estimator / collector / store call: its inputs and what it returned
    ret,
    \* the GetRealTimeSpeedWithInterval calls in progress in several goroutines:
    \* each caller's position and locals, and the snapshots taken so far
    netCalls,
    \* the directory entries that are not day-bucket files
    others,
    \* network.MonitorRealTime: its goroutine, its two channels, its consumer
    monitor

schedVars == <<isCollecting, stopChan, started, collectPc, cleanupPc, lastCall, panicked>>

\* The state of the concurrent callers, of the other directory entries and
\* of the monitor goroutine.
auxVars == <<netCalls, others, monitor>>

dataVars == <<now, lastNetworkStats, lastNetworkStatsTime, lastDiskIOStats,
              lastDiskIOStatsTime, diskPc, files, retentionDays, location, ticks, ret,
              netCalls, others, monitor>>

\* dataVars without ret
storeVars == <<now, lastNetworkStats, lastNetworkStatsTime, lastDiskIOStats,
               lastDiskIOStatsTime, diskPc, files, retentionDays, location, ticks,
               netCalls, others, monitor>>

vars == <<isCollecting, stopChan, started, collectPc, cleanupPc, lastCall, panicked,
          now, lastNetworkStats, lastNetworkStatsTime, lastDiskIOStats,
          lastDiskIOStatsTime, diskPc, files, retentionDays, location, ticks, ret,
          netCalls, others, monitor>>

\* ------------------------------------------------------------------------
\* stats.TrafficCollector: Start, Stop and the two loops
\* ------------------------------------------------------------------------

Gens == 1..MaxStarts

ErrAlreadyRunning == "traffic collector is already running"

ErrMkdir == "failed to create data directory"

\* NewTrafficCollector: not collecting, a fresh open stop channel, no goroutine.
NewTrafficCollector ==
    /\ isCollecting = FALSE
    /\ stopChan = "open"
    /\ started = 0
    /\ collectPc = [g \in Gens |-> "none"]
    /\ cleanupPc = [g \in Gens |-> "none"]
    /\ lastCall = [op |-> "none", ret |-> "none", was |-> FALSE]
    /\ panicked = FALSE

\* Start without its isCollecting check (mutant of Start).
StartNoRunningCheck(mkdirOk) ==
    /\ ~panicked
    /\ UNCHANGED dataVars
    /\ IF ~mkdirOk
       THEN /\ lastCall' = [op |-> "Start", ret |-> ErrMkdir, was |-> isCollecting]
            /\ UNCHANGED <<isCollecting, stopChan, started, collectPc, cleanupPc, panicked>>
       ELSE /\ started < MaxStarts
            /\ isCollecting' = TRUE
            /\ started' = started + 1
            /\ collectPc' = [collectPc EXCEPT ![started + 1] = "select"]
            /\ cleanupPc' = [cleanupPc EXCEPT ![started + 1] = "select"]
            /\ lastCall' = [op |-> "Start", ret |-> "nil", was |-> isCollecting]
            /\ UNCHANGED <<stopChan, panicked>>

\* Start: rejected while collecting; fails when the data directory cannot be
\* made (mkdirOk = FALSE); otherwise sets the flag and launches both loops.
Start(mkdirOk) ==
    /\ ~panicked
    /\ UNCHANGED dataVars
    /\ IF isCollecting
       THEN /\ lastCall' = [op |-> "Start", ret |-> ErrAlreadyRunning, was |-> isCollecting]
            /\ UNCHANGED <<isCollecting, stopChan, started, collectPc, cleanupPc, panicked>>
       ELSE IF ~mkdirOk
       THEN /\ lastCall' = [op |-> "Start", ret |-> ErrMkdir, was |-> isCollecting]
            /\ UNCHANGED <<isCollecting, stopChan, started, collectPc, cleanupPc, panicked>>
       ELSE /\ started < MaxStarts
            /\ isCollecting' = TRUE
            /\ started' = started + 1
            /\ collectPc' = [collectPc EXCEPT ![started + 1] = "select"]
            /\ cleanupPc' = [cleanupPc EXCEPT ![started + 1] = "select"]
            /\ lastCall' = [op |-> "Start", ret |-> "nil", was |-> isCollecting]
            /\ UNCHANGED <<stopChan, panicked>>

\* Stop without its isCollecting check (mutant of Stop).
StopNoRunningCheck ==
    /\ ~panicked
    /\ UNCHANGED dataVars
    /\ IF stopChan = "closed"
       THEN /\ panicked' = TRUE
            /\ lastCall' = [op |-> "Stop", ret |-> "panic", was |-> isCollecting]
            /\ UNCHANGED <<isCollecting, stopChan, started, collectPc, cleanupPc>>
       ELSE /\ stopChan' = "closed"
            /\ isCollecting' = FALSE
            /\ lastCall' = [op |-> "Stop", ret |-> "returned", was |-> isCollecting]
            /\ UNCHANGED <<started, collectPc, cleanupPc, panicked>>

\* Stop that clears the flag and forgets to close tc.stopChan (mutant of Stop).
StopNoClose ==
    /\ ~panicked
    /\ UNCHANGED dataVars
    /\ isCollecting' = FALSE
    /\ lastCall' = [op |-> "Stop", ret |-> "returned", was |-> isCollecting]
    /\ UNCHANGED <<stopChan, started, collectPc, cleanupPc, panicked>>

\* Stop: returns at once when not collecting; otherwise closes tc.stopChan and
\* clears the flag.  close() of an already closed channel panics before the
\* flag is cleared.
Stop ==
    /\ ~panicked
    /\ UNCHANGED dataVars
    /\ IF ~isCollecting
       THEN /\ lastCall' = [op |-> "Stop", ret |-> "returned", was |-> isCollecting]
            /\ UNCHANGED <<isCollecting, stopChan, started, collectPc, cleanupPc, panicked>>
       ELSE IF stopChan = "closed"
       THEN /\ panicked' = TRUE
            /\ lastCall' = [op |-> "Stop", ret |-> "panic", was |-> isCollecting]
            /\ UNCHANGED <<isCollecting, stopChan, started, collectPc, cleanupPc>>
       ELSE /\ stopChan' = "closed"
            /\ isCollecting' = FALSE
            /\ lastCall' = [op |-> "Stop", ret |-> "returned", was |-> isCollecting]
            /\ UNCHANGED <<started, collectPc, cleanupPc, panicked>>

\* collectLoop, case <-ticker.C: the loop enters collectOnce.
collectLoopTick(g) ==
    /\ collectPc[g] = "select"
    /\ collectPc' = [collectPc EXCEPT ![g] = "tick"]
    /\ UNCHANGED <<isCollecting, stopChan, started, cleanupPc, lastCall, panicked>>
    /\ UNCHANGED dataVars

\* collectLoop returning when collectOnce returned an error (mutant of
\* collectLoopTickDone).
collectLoopTickDoneFatal(g, err) ==
    /\ collectPc[g] = "tick"
    /\ err \in BOOLEAN
    /\ collectPc' = [collectPc EXCEPT ![g] = IF err THEN "done" ELSE "select"]
    /\ ret' = [fn |-> "collectLoop", g |-> g, err |-> err]
    /\ UNCHANGED <<isCollecting, stopChan, started, cleanupPc, lastCall, panicked>>
    /\ UNCHANGED storeVars

\* collectLoop: collectOnce returned (its error, if any, is printed only) and
\* the loop is back at its select; ret keeps what the call returned.
collectLoopTickDone(g, err) ==
    /\ collectPc[g] = "tick"
    /\ err \in BOOLEAN
    /\ collectPc' = [collectPc EXCEPT ![g] = "select"]
    /\ ret' = [fn |-> "collectLoop", g |-> g, err |-> err]
    /\ UNCHANGED <<isCollecting, stopChan, started, cleanupPc, lastCall, panicked>>
    /\ UNCHANGED storeVars

\* collectLoop, case <-tc.stopChan: a receive succeeds only on a closed channel
\* (nothing is ever sent on it); the loop returns.
collectLoopExit(g) ==
    /\ collectPc[g] = "select"
    /\ stopChan = "closed"
    /\ collectPc' = [collectPc EXCEPT ![g] = "done"]
    /\ UNCHANGED <<isCollecting, stopChan, started, cleanupPc, lastCall, panicked>>
    /\ UNCHANGED dataVars

\* cleanupLoop, case <-ticker.C (every 24 h): the loop enters cleanup.
cleanupLoopTick(g) ==
    /\ cleanupPc[g] = "select"
    /\ cleanupPc' = [cleanupPc EXCEPT ![g] = "tick"]
    /\ UNCHANGED <<isCollecting, stopChan, started, collectPc, lastCall, panicked>>
    /\ UNCHANGED dataVars

\* cleanupLoop: cleanup returned (its error, if any, is printed only).
cleanupLoopTickDone(g, err) ==
    /\ cleanupPc[g] = "tick"
    /\ err \in BOOLEAN
    /\ cleanupPc' = [cleanupPc EXCEPT ![g] = "select"]
    /\ ret' = [fn |-> "cleanupLoop", g |-> g, err |-> err]
    /\ UNCHANGED <<isCollecting, stopChan, started, collectPc, lastCall, panicked>>
    /\ UNCHANGED storeVars

\* cleanupLoop, case <-tc.stopChan.
cleanupLoopExit(g) ==
    /\ cleanupPc[g] = "select"
    /\ stopChan = "closed"
    /\ cleanupPc' = [cleanupPc EXCEPT ![g] = "done"]
    /\ UNCHANGED <<isCollecting, stopChan, started, collectPc, lastCall, panicked>>
    /\ UNCHANGED dataVars


\* ------------------------------------------------------------------------
\* Time
\* ------------------------------------------------------------------------

\* The zero value of time.Time (lastNetworkStatsTime before the first call).
ZeroTime == -1

\* The elapsed-time guard: only 0 < timeDiff < 60 seconds is accepted.
MaxTimeDiff == 60

\* The clock is read at multiples of ClockStep seconds after midnight,
\* at most MaxClockSteps of them, on days 0..MaxDay.
ClockStep == 20

MaxClockSteps == 3

MaxDay == 1

SecondsPerDay == 24 * 60 * 60

TimesOfDay == {ClockStep * k : k \in 0..MaxClockSteps}

ClockTimes(maxDay) == {d * SecondsPerDay + s : d \in 0..maxDay, s \in TimesOfDay}

\* time.Now(): a reading not before the previous one (Go's monotonic clock).
TimeNow(maxDay) == {t \in ClockTimes(maxDay) : t >= now}

\* ------------------------------------------------------------------------
\* Go values
\* ------------------------------------------------------------------------

\* A Go map variable: nil, or a map (a function from its keys).
NilMap == [isNil |-> TRUE, m |-> <<>>]

MakeMap(f) == [isNil |-> FALSE, m |-> f]

\* Longest list a counter source returns.
MaxIfaces == 2

SeqsUpTo(S, n) == UNION {[1..k -> S] : k \in 0..n}

\* Byte-wise order of the resource names used ("en0" < "en1" < "lo0").
NameRank(name) ==
    CASE name = "disk0" -> 0
      [] name = "en0" -> 1
      [] name = "en1" -> 2
      [] name = "lo0" -> 3

\* sort.Slice(speeds, Name <): the entries of S (distinct names) by name.
RECURSIVE SortByName(_)
SortByName(S) ==
    IF S = {} THEN <<>>
    ELSE LET first == CHOOSE x \in S : \A y \in S : NameRank(x.Name) <= NameRank(y.Name)
         IN  <<first>> \o SortByName(S \ {first})

\* Every order in which a range over a Go map may visit the entries of S.
RECURSIVE AnyOrder(_)
AnyOrder(S) ==
    IF S = {} THEN {<<>>}
    ELSE UNION {{<<x>> \o rest : rest \in AnyOrder(S \ {x})} : x \in S}

\* A float64 that is a ratio of two integers, kept as the ratio.
Rat(n, d) == [num |-> n, den |-> d]

\* ------------------------------------------------------------------------
\* package network: GetRealTimeSpeedWithInterval
\* ------------------------------------------------------------------------

NetStat(name, rx, tx, prx, ptx) ==
    [Name |-> name, BytesReceived |-> rx, BytesSent |-> tx,
     PacketsReceived |-> prx, PacketsSent |-> ptx]

\* currentStatsMap[currentStats[i].Name] = &currentStats[i], in list order:
\* the last entry of a name wins.
NetStatsMap(currentStats) ==
    [name \in {currentStats[i].Name : i \in DOMAIN currentStats} |->
        LET i == CHOOSE k \in DOMAIN currentStats :
                    /\ currentStats[k].Name = name
                    /\ \A j \in DOMAIN currentStats :
                          currentStats[j].Name = name => j <= k
        IN  currentStats[i]]

\* The rate without the current >= last check (mutant of RateOf).
RateOfUnchecked(current, last, timeDiff) == (current - last) \div timeDiff

\* The rate as the bare counter delta, not divided by timeDiff (mutant of RateOf).
RateOfUndivided(current, last, timeDiff) ==
    IF current >= last THEN current - last ELSE 0

\* uint64(float64(diff) / timeDiff) for current >= last, else the field stays 0.
RateOf(current, last, timeDiff) ==
    IF current >= last THEN (current - last) \div timeDiff ELSE 0

\* The NetworkSpeed of an interface that has a cached entry.
NetworkSpeedOf(name, currentStat, lastStat, timeDiff, t) ==
    [Name |-> name,
     DownloadSpeed |-> RateOf(currentStat.BytesReceived, lastStat.BytesReceived, timeDiff),
     UploadSpeed |-> RateOf(currentStat.BytesSent, lastStat.BytesSent, timeDiff),
     DownloadTotal |-> currentStat.BytesReceived,
     UploadTotal |-> currentStat.BytesSent,
     LastUpdated |-> t]

\* The NetworkSpeed of an interface on the first call: speeds 0.
FirstCallSpeedOf(name, currentStat, t) ==
    [Name |-> name,
     DownloadSpeed |-> 0,
     UploadSpeed |-> 0,
     DownloadTotal |-> currentStat.BytesReceived,
     UploadTotal |-> currentStat.BytesSent,
     LastUpdated |-> t]

\* The elapsed-time guard of both estimators.
TimeDiffOk(timeDiff) == timeDiff > 0 /\ timeDiff < MaxTimeDiff

\* The speeds GetRealTimeSpeedWithInterval returns for the snapshot
\* currentStatsMap read at t, against the cache, sorted by name.
NetSpeeds(currentStatsMap, t) ==
    IF ~lastNetworkStats.isNil /\ lastNetworkStatsTime # ZeroTime
    THEN LET timeDiff == t - lastNetworkStatsTime
         IN  IF TimeDiffOk(timeDiff)
             THEN SortByName({NetworkSpeedOf(name, currentStatsMap[name],
                                             lastNetworkStats.m[name], timeDiff, t) :
                                name \in DOMAIN currentStatsMap \cap DOMAIN lastNetworkStats.m})
             ELSE <<>>
    ELSE SortByName({FirstCallSpeedOf(name, currentStatsMap[name], t) :
                        name \in DOMAIN currentStatsMap})

\* The cache written only when the elapsed-time guard accepts the call
\* (mutant of NetCacheAfter).
NetCacheKeptOnReject(currentStatsMap, t) ==
    IF ~lastNetworkStats.isNil /\ lastNetworkStatsTime # ZeroTime
          /\ ~TimeDiffOk(t - lastNetworkStatsTime)
    THEN [stats |-> lastNetworkStats, time |-> lastNetworkStatsTime]
    ELSE [stats |-> MakeMap(currentStatsMap), time |-> t]

\* The cache after a call that read currentStatsMap at t.
NetCacheAfter(currentStatsMap, t) ==
    [stats |-> MakeMap(currentStatsMap), time |-> t]

\* What a call records in ret: its outcome, the snapshot it read (cur, at)
\* and the cache it found (prev, prevTime).
NetRet(srcErr, currentStats, t) ==
    IF srcErr
    THEN [fn |-> "GetRealTimeSpeedWithInterval", err |-> TRUE]
    ELSE [fn |-> "GetRealTimeSpeedWithInterval", err |-> FALSE,
          speeds |-> NetSpeeds(NetStatsMap(currentStats), t),
          cur |-> NetStatsMap(currentStats),
          at |-> t,
          prev |-> lastNetworkStats,
          prevTime |-> lastNetworkStatsTime]

\* GetRealTimeSpeedWithInterval called directly.  srcErr: GetInterfaceStats
\* fails (the call returns before it reads the clock or touches the cache);
\* otherwise currentStats is the list the source returns and t the clock.
GetRealTimeSpeedWithInterval(srcErr, currentStats, t) ==
    /\ ret' = NetRet(srcErr, currentStats, t)
    /\ IF srcErr
       THEN UNCHANGED <<now, lastNetworkStats, lastNetworkStatsTime>>
       ELSE /\ now' = t
            /\ lastNetworkStats' = NetCacheAfter(NetStatsMap(currentStats), t).stats
            /\ lastNetworkStatsTime' = NetCacheAfter(NetStatsMap(currentStats), t).time
    /\ UNCHANGED <<lastDiskIOStats, lastDiskIOStatsTime, diskPc, files, ticks>>
    /\ UNCHANGED <<retentionDays, location>>
    /\ UNCHANGED auxVars
    /\ UNCHANGED schedVars

\* ------------------------------------------------------------------------
\* package disk: calculateDiskSpeed and GetDiskSpeedWithInterval
\* ------------------------------------------------------------------------

\* A DiskIOStats whose read-side counters follow r, write-side counters w,
\* and busy time (ms) io; t is LastUpdated.
DiskStat(device, r, w, io, t) ==
    [Device |-> device,
     ReadBytes |-> r, ReadCount |-> 2 * r, ReadTime |-> 3 * r,
     WriteBytes |-> w, WriteCount |-> 2 * w, WriteTime |-> 3 * w,
     IOTime |-> io, LastUpdated |-> t]

DiskStatsMap(currentStats) ==
    [device \in {currentStats[i].Device : i \in DOMAIN currentStats} |->
        LET i == CHOOSE k \in DOMAIN currentStats :
                    /\ currentStats[k].Device = device
                    /\ \A j \in DOMAIN currentStats :
                          currentStats[j].Device = device => j <= k
        IN  currentStats[i]]

\* The utilization without its cap at 100 (mutant of UtilizationOf).
UtilizationUncapped(ioDiff, timeDiff) == Rat(ioDiff * 100, timeDiff * 1000)

\* float64(IOTime diff) / (timeDiff * 1000) * 100, capped at 100.
UtilizationOf(ioDiff, timeDiff) ==
    IF ioDiff * 100 > 100 * (timeDiff * 1000)
    THEN Rat(100, 1)
    ELSE Rat(ioDiff * 100, timeDiff * 1000)

calculateDiskSpeed(last, current, timeDiff) ==
    LET readIOPS == RateOf(current.ReadCount, last.ReadCount, timeDiff)
        writeIOPS == RateOf(current.WriteCount, last.WriteCount, timeDiff)
    IN  [Device |-> current.Device,
         LastUpdated |-> current.LastUpdated,
         ReadSpeed |-> RateOf(current.ReadBytes, last.ReadBytes, timeDiff),
         WriteSpeed |-> RateOf(current.WriteBytes, last.WriteBytes, timeDiff),
         ReadIOPS |-> readIOPS,
         WriteIOPS |-> writeIOPS,
         AvgReadLatency |->
            IF readIOPS > 0 /\ current.ReadTime >= last.ReadTime
            THEN Rat(current.ReadTime - last.ReadTime, current.ReadCount - last.ReadCount)
            ELSE Rat(0, 1),
         AvgWriteLatency |->
            IF writeIOPS > 0 /\ current.WriteTime >= last.WriteTime
            THEN Rat(current.WriteTime - last.WriteTime, current.WriteCount - last.WriteCount)
            ELSE Rat(0, 1),
         Utilization |->
            IF current.IOTime >= last.IOTime
            THEN UtilizationOf(current.IOTime - last.IOTime, timeDiff)
            ELSE Rat(0, 1)]

\* The speed lists GetDiskSpeedWithInterval may return with a cache present:
\* one entry per device of both maps, in map-iteration order; none when the
\* elapsed-time guard rejects timeDiff.
DiskSpeeds(currentStatsMap, t) ==
    LET timeDiff == t - lastDiskIOStatsTime
    IN  IF TimeDiffOk(timeDiff)
        THEN AnyOrder({calculateDiskSpeed(lastDiskIOStats.m[device],
                                          currentStatsMap[device], timeDiff) :
                          device \in DOMAIN currentStatsMap \cap DOMAIN lastDiskIOStats.m})
        ELSE {<<>>}

\* One activation of GetDiskSpeedWithInterval: the call itself, or the call
\* it makes to itself after time.Sleep(interval).  srcErr: GetDiskIOStats
\* fails.  Without a cache the activation sleeps and recurses (diskPc =
\* "sleep"); the cache is written only on the path that found one.
DiskActivation(srcErr, currentStats, t) ==
    /\ IF srcErr
       THEN /\ ret' = [fn |-> "GetDiskSpeedWithInterval", returned |-> TRUE, err |-> TRUE]
            /\ diskPc' = "idle"
            /\ UNCHANGED <<now, lastDiskIOStats, lastDiskIOStatsTime>>
       ELSE IF ~lastDiskIOStats.isNil /\ lastDiskIOStatsTime # ZeroTime
       THEN /\ \E speeds \in DiskSpeeds(DiskStatsMap(currentStats), t) :
                 ret' = [fn |-> "GetDiskSpeedWithInterval", returned |-> TRUE,
                         err |-> FALSE, speeds |-> speeds,
                         cur |-> DiskStatsMap(currentStats), at |-> t,
                         prev |-> lastDiskIOStats, prevTime |-> lastDiskIOStatsTime]
            /\ now' = t
            /\ lastDiskIOStats' = MakeMap(DiskStatsMap(currentStats))
            /\ lastDiskIOStatsTime' = t
            /\ diskPc' = "idle"
       ELSE /\ ret' = [fn |-> "GetDiskSpeedWithInterval", returned |-> FALSE,
                       err |-> FALSE, cur |-> DiskStatsMap(currentStats), at |-> t,
                       prev |-> lastDiskIOStats, prevTime |-> lastDiskIOStatsTime]
            /\ now' = t
            /\ diskPc' = "sleep"
            /\ UNCHANGED <<lastDiskIOStats, lastDiskIOStatsTime>>
    /\ UNCHANGED <<lastNetworkStats, lastNetworkStatsTime, files, ticks>>
    /\ UNCHANGED <<retentionDays, location>>
    /\ UNCHANGED auxVars
    /\ UNCHANGED schedVars

\* A caller enters GetDiskSpeedWithInterval.
GetDiskSpeedWithInterval(srcErr, currentStats, t) ==
    /\ diskPc = "idle"
    /\ DiskActivation(srcErr, currentStats, t)

\* time.Sleep(interval) is over: return GetDiskSpeedWithInterval(interval).
GetDiskSpeedRecurse(srcErr, currentStats, t) ==
    /\ diskPc = "sleep"
    /\ DiskActivation(srcErr, currentStats, t)

\* calculateDiskSpeed applied to a pair of stats and a timeDiff the guard
\* accepts.  The function is pure; it is applied once, in the initial program
\* state, before any estimator call.
calculateDiskSpeedApply(last, current, timeDiff) ==
    /\ ret.fn = "none"
    /\ TimeDiffOk(timeDiff)
    /\ ret' = [fn |-> "calculateDiskSpeed", last |-> last, current |-> current,
               timeDiff |-> timeDiff,
               speed |-> calculateDiskSpeed(last, current, timeDiff)]
    /\ UNCHANGED storeVars
    /\ UNCHANGED schedVars

\* ------------------------------------------------------------------------
\* Inputs of the estimators
\* ------------------------------------------------------------------------

\* Entries a network counter source returns in SpecRate.
RateNetEntries ==
    {NetStat("en0", c[1], c[2], 0, 0) : c \in {<<0, 0>>, <<20, 20>>, <<60, 0>>}}
        \cup {NetStat("lo0", 20, 20, 0, 0)}

RateNetSources == SeqsUpTo(RateNetEntries, MaxIfaces)

\* Entries a disk counter source returns in SpecRate.
RateDiskEntries == {DiskStat("disk0", r, r, 0, 0) : r \in {0, 20}}

RateDiskSources == SeqsUpTo(RateDiskEntries, MaxIfaces)

\* Stats calculateDiskSpeed is applied to.
DiskSamples ==
    {DiskStat("disk0", r, w, io, 0) : r \in {0, 20, 60}, w \in {0, 20, 60},
                                      io \in {0, 10000, 50000}}

\* What a counter source hands back: no list when it fails.
SourceLists(srcErr, lists) == IF srcErr THEN {<<>>} ELSE lists

\* The clock readings of a call: none is taken when its source fails.
SourceTimes(srcErr, maxDay) == IF srcErr THEN {now} ELSE TimeNow(maxDay)

\* ------------------------------------------------------------------------
\* Initial state of the data side
\* ------------------------------------------------------------------------

\* The retention the example program constructs its collector with.
ExampleRetentionDays == 30

\* The offset of UTC from itself.
UTC == 0

\* Goroutines that call GetRealTimeSpeedWithInterval at the same time.
MaxCallers == 2

Callers == 1..MaxCallers

\* A goroutine that has not called yet: its locals are zero values.
IdleCall ==
    [pc |-> "idle", cur |-> <<>>, at |-> ZeroTime, used |-> FALSE,
     base |-> NilMap, baseTime |-> ZeroTime, speeds |-> <<>>]

\* No call in progress, no snapshot taken.
NoCalls == [call |-> [c \in Callers |-> IdleCall], snaps |-> {}]

\* MonitorRealTime not called.
NoMonitor ==
    [pc |-> "none", consumer |-> "none", sent |-> [chan |-> "none"],
     got |-> [chan |-> "none"]]

InitAux ==
    /\ netCalls = NoCalls
    /\ others = {}
    /\ monitor = NoMonitor

InitData ==
    /\ now = 0
    /\ lastNetworkStats = NilMap
    /\ lastNetworkStatsTime = ZeroTime
    /\ lastDiskIOStats = NilMap
    /\ lastDiskIOStatsTime = ZeroTime
    /\ diskPc = "idle"
    /\ files = <<>>
    /\ retentionDays = ExampleRetentionDays
    /\ location = UTC
    /\ ticks = 0
    /\ ret = [fn |-> "none"]
    /\ InitAux

\* ------------------------------------------------------------------------
\* SpecRate: the estimators called directly
\* ------------------------------------------------------------------------

InitRate == NewTrafficCollector /\ InitData

NextRate ==
    \/ \E srcErr \in BOOLEAN :
          \E currentStats \in SourceLists(srcErr, RateNetSources),
             t \in SourceTimes(srcErr, 0) :
             GetRealTimeSpeedWithInterval(srcErr, currentStats, t)
    \/ \E srcErr \in BOOLEAN :
          \E currentStats \in SourceLists(srcErr, RateDiskSources),
             t \in SourceTimes(srcErr, 0) :
             GetDiskSpeedWithInterval(srcErr, currentStats, t)
    \/ \E srcErr \in BOOLEAN :
          \E currentStats \in SourceLists(srcErr, RateDiskSources),
             t \in SourceTimes(srcErr, 0) :
             GetDiskSpeedRecurse(srcErr, currentStats, t)
    \/ \E last \in DiskSamples, current \in DiskSamples, timeDiff \in TimesOfDay :
          calculateDiskSpeedApply(last, current, timeDiff)

SpecRate == InitRate /\ [][NextRate]_vars

\* ------------------------------------------------------------------------
\* SpecRace: GetRealTimeSpeedWithInterval called by several goroutines at
\* once.  The function takes no lock, so its reads and writes of the two
\* package variables are steps of their own, interleaved freely with those
\* of the other callers.  (A call whose source fails returns before it
\* touches either variable.)
\* ------------------------------------------------------------------------

\* What the counter source returns to the concurrent callers.
RaceSources == {<<NetStat("en0", c, c, 0, 0)>> : c \in {0, 20, 60}}

SetCall(c, call) ==
    [netCalls EXCEPT !.call = [netCalls.call EXCEPT ![c] = call]]

RaceFrame ==
    /\ UNCHANGED <<lastDiskIOStats, lastDiskIOStatsTime, diskPc, files, ticks,
                   retentionDays, location, ret, others, monitor>>
    /\ UNCHANGED schedVars

\* Lines 133-145: the call reads the counters and then the clock; the pair
\* is the snapshot of this call.
CallSample(c, currentStats, t) ==
    /\ netCalls.call[c].pc = "idle"
    /\ t > now
    /\ now' = t
    /\ netCalls' =
          [call |-> [netCalls.call EXCEPT ![c] =
                        [IdleCall EXCEPT !.pc = "check",
                                         !.cur = NetStatsMap(currentStats),
                                         !.at = t]],
           snaps |-> netCalls.snaps
                        \cup {[stats |-> MakeMap(NetStatsMap(currentStats)), time |-> t]}]
    /\ UNCHANGED <<lastNetworkStats, lastNetworkStatsTime>>
    /\ RaceFrame

\* Lines 148-151 and 176-188: the test of the two variables and the read
\* of lastNetworkStatsTime for timeDiff.
CallCheck(c) ==
    LET call == netCalls.call[c]
    IN  /\ call.pc = "check"
        /\ netCalls' =
              IF ~lastNetworkStats.isNil /\ lastNetworkStatsTime # ZeroTime
              THEN IF TimeDiffOk(call.at - lastNetworkStatsTime)
                   THEN SetCall(c, [call EXCEPT !.pc = "range",
                                                !.baseTime = lastNetworkStatsTime])
                   ELSE SetCall(c, [call EXCEPT !.pc = "store"])
              ELSE SetCall(c, [call EXCEPT
                                 !.pc = "store",
                                 !.speeds = SortByName({FirstCallSpeedOf(name, call.cur[name],
                                                                         call.at) :
                                                           name \in DOMAIN call.cur})])
        /\ UNCHANGED <<now, lastNetworkStats, lastNetworkStatsTime>>
        /\ RaceFrame

\* Lines 152-173: the loop looks every interface up in lastNetworkStats and
\* divides by the timeDiff computed before.
CallRange(c) ==
    LET call == netCalls.call[c]
        timeDiff == call.at - call.baseTime
    IN  /\ call.pc = "range"
        /\ netCalls' =
              SetCall(c, [call EXCEPT
                            !.pc = "store",
                            !.used = TRUE,
                            !.base = lastNetworkStats,
                            !.speeds =
                                SortByName({NetworkSpeedOf(name, call.cur[name],
                                                           lastNetworkStats.m[name],
                                                           timeDiff, call.at) :
                                               name \in DOMAIN call.cur
                                                           \cap DOMAIN lastNetworkStats.m})])
        /\ UNCHANGED <<now, lastNetworkStats, lastNetworkStatsTime>>
        /\ RaceFrame

\* Line 191: lastNetworkStats = currentStatsMap.
CallStoreStats(c) ==
    LET call == netCalls.call[c]
    IN  /\ call.pc = "store"
        /\ lastNetworkStats' = MakeMap(call.cur)
        /\ netCalls' = SetCall(c, [call EXCEPT !.pc = "storeTime"])
        /\ UNCHANGED <<now, lastNetworkStatsTime>>
        /\ RaceFrame

\* Lines 192-199: lastNetworkStatsTime = now, and the call returns.
CallStoreTime(c) ==
    LET call == netCalls.call[c]
    IN  /\ call.pc = "storeTime"
        /\ lastNetworkStatsTime' = call.at
        /\ netCalls' = SetCall(c, [call EXCEPT !.pc = "idle"])
        /\ UNCHANGED <<now, lastNetworkStats>>
        /\ RaceFrame

InitRace == NewTrafficCollector /\ InitData

NextRace ==
    \/ \E c \in Callers, currentStats \in RaceSources, t \in TimeNow(0) :
          CallSample(c, currentStats, t)
    \/ \E c \in Callers : CallCheck(c)
    \/ \E c \in Callers : CallRange(c)
    \/ \E c \in Callers : CallStoreStats(c)
    \/ \E c \in Callers : CallStoreTime(c)

SpecRace == InitRace /\ [][NextRace]_vars

\* ------------------------------------------------------------------------
\* SpecMonitor: network.MonitorRealTime, its goroutine and a consumer of
\* its two channels (disk.MonitorRealTime has the same body, calling
\* GetDiskSpeed)
\* ------------------------------------------------------------------------

MonitorFrame ==
    /\ UNCHANGED <<lastDiskIOStats, lastDiskIOStatsTime, diskPc, files, ticks,
                   retentionDays, location, netCalls, others>>
    /\ UNCHANGED schedVars

\* MonitorRealTime: makes the two unbuffered channels, starts the
\* goroutine (which waits for its ticker) and returns the channels to the
\* caller, who receives from them.
MonitorRealTime ==
    /\ monitor.pc = "none"
    /\ monitor' = [NoMonitor EXCEPT !.pc = "ticker", !.consumer = "receiving"]
    /\ UNCHANGED <<now, lastNetworkStats, lastNetworkStatsTime, ret>>
    /\ MonitorFrame

\* One round of `for range ticker.C`: GetRealTimeSpeed is called, and the
\* goroutine goes to send its error on errorChan or its speeds on speedChan.
MonitorTick(srcErr, currentStats, t) ==
    /\ monitor.pc = "ticker"
    /\ ~srcErr => t > now
    /\ ret' = NetRet(srcErr, currentStats, t)
    /\ IF srcErr
       THEN UNCHANGED <<now, lastNetworkStats, lastNetworkStatsTime>>
       ELSE /\ now' = t
            /\ lastNetworkStats' = NetCacheAfter(NetStatsMap(currentStats), t).stats
            /\ lastNetworkStatsTime' = NetCacheAfter(NetStatsMap(currentStats), t).time
    /\ monitor' = [monitor EXCEPT
                      !.pc = IF srcErr THEN "sendErr" ELSE "sendSpeed",
                      !.sent = IF srcErr
                               THEN [chan |-> "errorChan", err |-> TRUE]
                               ELSE [chan |-> "speedChan", err |-> FALSE,
                                     speeds |-> NetSpeeds(NetStatsMap(currentStats), t)]]
    /\ MonitorFrame

\* The send on an unbuffered channel completes when the consumer receives:
\* the consumer's select takes the value, the goroutine goes back to its
\* ticker.
MonitorSend ==
    /\ monitor.pc \in {"sendErr", "sendSpeed"}
    /\ monitor.consumer = "receiving"
    /\ monitor' = [monitor EXCEPT !.pc = "ticker", !.got = monitor.sent]
    /\ UNCHANGED <<now, lastNetworkStats, lastNetworkStatsTime, ret>>
    /\ MonitorFrame

\* The consumer stops receiving (monitorNetworkSpeed returns at its
\* timeout); it has no way to tell the goroutine.
ConsumerStops ==
    /\ monitor.consumer = "receiving"
    /\ monitor' = [monitor EXCEPT !.consumer = "stopped"]
    /\ UNCHANGED <<now, lastNetworkStats, lastNetworkStatsTime, ret>>
    /\ MonitorFrame

\* The steps of the goroutine.  Its loop has no exit: ticker.C is never
\* closed, so the function never returns and the deferred close calls of
\* speedChan and errorChan never run.
MonitorGoroutine ==
    \/ \E srcErr \in BOOLEAN :
          \E currentStats \in SourceLists(srcErr, RateNetSources),
             t \in SourceTimes(srcErr, 0) :
             MonitorTick(srcErr, currentStats, t)
    \/ MonitorSend

InitMonitor == NewTrafficCollector /\ InitData

NextMonitor ==
    \/ MonitorRealTime
    \/ MonitorGoroutine
    \/ ConsumerStops

SpecMonitor == InitMonitor /\ [][NextMonitor]_vars

\* ------------------------------------------------------------------------
\* SpecSched: the collector's state machine
\* ------------------------------------------------------------------------

InitSched == NewTrafficCollector /\ InitData

NextSched ==
    \/ \E mkdirOk \in BOOLEAN : Start(mkdirOk)
    \/ Stop
    \/ \E g \in Gens : collectLoopTick(g)
    \/ \E g \in Gens, err \in BOOLEAN : collectLoopTickDone(g, err)
    \/ \E g \in Gens : collectLoopExit(g)
    \/ \E g \in Gens : cleanupLoopTick(g)
    \/ \E g \in Gens, err \in BOOLEAN : cleanupLoopTickDone(g, err)
    \/ \E g \in Gens : cleanupLoopExit(g)

SpecSched == InitSched /\ [][NextSched]_vars

FairSched ==
    /\ SpecSched
    /\ \A g \in Gens :
          /\ WF_vars(\E err \in BOOLEAN : collectLoopTickDone(g, err))
          /\ WF_vars(\E err \in BOOLEAN : cleanupLoopTickDone(g, err))
          /\ SF_vars(collectLoopExit(g))
          /\ SF_vars(cleanupLoopExit(g))

\* ------------------------------------------------------------------------
\* package stats: collectOnce, saveRecords, updateDailyStats, GetDailyStats
\* ------------------------------------------------------------------------

\* The strings p with name[:len(p)] == p, for the names used.
PrefixesOf(name) ==
    CASE name = "en0" -> {"e", "en", "en0"}
      [] name = "en1" -> {"e", "en", "en1"}
      [] name = "lo0" -> {"l", "lo", "lo0"}
      [] name = "disk0" -> {"d", "di", "dis", "disk", "disk0"}

excludePrefixes == {"lo", "docker", "veth", "br-", "virbr", "tap", "tun"}

IsValidInterface(name) ==
    \A prefix \in excludePrefixes : prefix \notin PrefixesOf(name)

\* timestamp.Format("2006-01-02"): the day of a time, as the day's number.
Format(timestamp) == timestamp \div SecondsPerDay

\* The Date of a zero DailyTrafficStats (the empty string).
EmptyDate == -1

\* The zero DailyTrafficStats (var dailyStats DailyTrafficStats).
ZeroDailyStats ==
    [Date |-> EmptyDate, TotalBytesIn |-> 0, TotalBytesOut |-> 0,
     PeakSpeedIn |-> 0, PeakSpeedOut |-> 0, AvgSpeedIn |-> 0, AvgSpeedOut |-> 0,
     Records |-> <<>>, Summary |-> <<>>]

\* The record collectOnce builds for one speed entry: the speeds of the
\* estimator, the cumulative counters of the second snapshot statsMap
\* (left 0 when the interface is not in it).
TrafficRecord(timestamp, speed, statsMap) ==
    LET exists == speed.Name \in DOMAIN statsMap
    IN  [Timestamp |-> timestamp,
         Interface |-> speed.Name,
         BytesIn |-> IF exists THEN statsMap[speed.Name].BytesReceived ELSE 0,
         BytesOut |-> IF exists THEN statsMap[speed.Name].BytesSent ELSE 0,
         PacketsIn |-> IF exists THEN statsMap[speed.Name].PacketsReceived ELSE 0,
         PacketsOut |-> IF exists THEN statsMap[speed.Name].PacketsSent ELSE 0,
         SpeedIn |-> speed.DownloadSpeed,
         SpeedOut |-> speed.UploadSpeed]

SpeedIsValid(speed) == IsValidInterface(speed.Name)

\* The records of one tick: one per speed entry of a valid interface, in
\* the order of speeds.
TickRecords(timestamp, speeds, statsMap) ==
    LET valid == SelectSeq(speeds, SpeedIsValid)
    IN  [i \in DOMAIN valid |-> TrafficRecord(timestamp, valid[i], statsMap)]

\* The zero value of an interfaceTraffic entry.
ZeroTraffic == [bytesIn |-> 0, bytesOut |-> 0, maxSpeedIn |-> 0, maxSpeedOut |-> 0]

\* The loop body taking the record's value, whatever the entry holds
\* (mutant of UpdateTraffic).
UpdateTrafficLast(iface, record) ==
    [bytesIn |-> record.BytesIn, bytesOut |-> record.BytesOut,
     maxSpeedIn |-> record.SpeedIn, maxSpeedOut |-> record.SpeedOut]

\* The body of updateDailyStats' first loop: the four running maxima.
UpdateTraffic(iface, record) ==
    [bytesIn |-> IF record.BytesIn > iface.bytesIn THEN record.BytesIn ELSE iface.bytesIn,
     bytesOut |-> IF record.BytesOut > iface.bytesOut THEN record.BytesOut ELSE iface.bytesOut,
     maxSpeedIn |-> IF record.SpeedIn > iface.maxSpeedIn THEN record.SpeedIn ELSE iface.maxSpeedIn,
     maxSpeedOut |-> IF record.SpeedOut > iface.maxSpeedOut THEN record.SpeedOut ELSE iface.maxSpeedOut]

\* updateDailyStats' first loop over records, in order.
RECURSIVE interfaceTraffic(_)
interfaceTraffic(records) ==
    IF records = <<>> THEN <<>>
    ELSE LET acc == interfaceTraffic(SubSeq(records, 1, Len(records) - 1))
             record == records[Len(records)]
             iface == IF record.Interface \in DOMAIN acc
                      THEN acc[record.Interface] ELSE ZeroTraffic
         IN  (record.Interface :> UpdateTraffic(iface, record)) @@ acc

\* The sum of f over the keys S, and the largest value of f over S (0 for none).
RECURSIVE SumOver(_, _)
SumOver(f, S) ==
    IF S = {} THEN 0
    ELSE LET x == CHOOSE y \in S : TRUE IN f[x] + SumOver(f, S \ {x})

RECURSIVE PeakOver(_, _)
PeakOver(f, S) ==
    IF S = {} THEN 0
    ELSE LET x == CHOOSE y \in S : TRUE
             rest == PeakOver(f, S \ {x})
         IN  IF f[x] > rest THEN f[x] ELSE rest

\* The Summary key ifaceName + "_in" / "_out".
SummaryKey(ifaceName, dir) == <<ifaceName, dir>>

\* updateDailyStats: totals, peaks and Summary recomputed from stats.Records;
\* Summary keys of interfaces without a record keep their value.
updateDailyStats(stats) ==
    LET traffic == interfaceTraffic(stats.Records)
        names == DOMAIN traffic
        keys == {SummaryKey(n, dir) : n \in names, dir \in {"_in", "_out"}}
    IN  [stats EXCEPT
            !.TotalBytesIn = SumOver([n \in names |-> traffic[n].bytesIn], names),
            !.TotalBytesOut = SumOver([n \in names |-> traffic[n].bytesOut], names),
            !.PeakSpeedIn = PeakOver([n \in names |-> traffic[n].maxSpeedIn], names),
            !.PeakSpeedOut = PeakOver([n \in names |-> traffic[n].maxSpeedOut], names),
            !.Summary = [k \in DOMAIN stats.Summary \cup keys |->
                            IF k \in keys
                            THEN IF k[2] = "_in" THEN traffic[k[1]].bytesIn
                                                 ELSE traffic[k[1]].bytesOut
                            ELSE stats.Summary[k]]]

\* time.Time in JSON (RFC 3339 text): the day and the time of day.
MarshalTime(t) == <<t \div SecondsPerDay, t % SecondsPerDay>>

UnmarshalTime(text) == text[1] * SecondsPerDay + text[2]

\* json.MarshalIndent / json.Unmarshal of a TrafficRecord (json tags).
MarshalRecord(r) ==
    [timestamp |-> MarshalTime(r.Timestamp), interface |-> r.Interface,
     bytes_in |-> r.BytesIn, bytes_out |-> r.BytesOut,
     packets_in |-> r.PacketsIn, packets_out |-> r.PacketsOut,
     speed_in |-> r.SpeedIn, speed_out |-> r.SpeedOut]

UnmarshalRecord(o) ==
    [Timestamp |-> UnmarshalTime(o.timestamp), Interface |-> o.interface,
     BytesIn |-> o.bytes_in, BytesOut |-> o.bytes_out,
     PacketsIn |-> o.packets_in, PacketsOut |-> o.packets_out,
     SpeedIn |-> o.speed_in, SpeedOut |-> o.speed_out]

\* json.MarshalIndent of a DailyTrafficStats: the bytes of a file holding
\* one JSON document.
Marshal(stats) ==
    <<[date |-> stats.Date,
       total_bytes_in |-> stats.TotalBytesIn, total_bytes_out |-> stats.TotalBytesOut,
       peak_speed_in |-> stats.PeakSpeedIn, peak_speed_out |-> stats.PeakSpeedOut,
       avg_speed_in |-> stats.AvgSpeedIn, avg_speed_out |-> stats.AvgSpeedOut,
       records |-> [i \in DOMAIN stats.Records |-> MarshalRecord(stats.Records[i])],
       summary |-> stats.Summary]>>

\* The bytes of a file cut off by a failed write (O_TRUNC, nothing written).
TornData == <<>>

\* json.Unmarshal(data, &into): a syntax error (a cut-off file) leaves into
\* untouched; otherwise every field is set from the document.
Unmarshal(data, into) ==
    IF Len(data) = 0
    THEN [err |-> TRUE, v |-> into]
    ELSE [err |-> FALSE,
          v |-> [Date |-> data[1].date,
                 TotalBytesIn |-> data[1].total_bytes_in,
                 TotalBytesOut |-> data[1].total_bytes_out,
                 PeakSpeedIn |-> data[1].peak_speed_in,
                 PeakSpeedOut |-> data[1].peak_speed_out,
                 AvgSpeedIn |-> data[1].avg_speed_in,
                 AvgSpeedOut |-> data[1].avg_speed_out,
                 Records |-> [i \in DOMAIN data[1].records |->
                                 UnmarshalRecord(data[1].records[i])],
                 Summary |-> data[1].summary]]

\* os.ReadFile of traffic_<dateStr>.json in the store fs: fails when the
\* file does not exist, or with readErr (any other I/O error).
ReadFile(fs, dateStr, readErr) ==
    IF dateStr \notin DOMAIN fs \/ readErr
    THEN [err |-> TRUE, data |-> TornData]
    ELSE [err |-> FALSE, data |-> fs[dateStr]]

\* os.WriteFile: "ok" replaces the content; "failed" fails before the file
\* is touched; "torn" fails after the file was truncated.
WriteResults == {"ok", "failed", "torn"}

WriteFile(fs, dateStr, data, writeRes) ==
    CASE writeRes = "ok" -> (dateStr :> data) @@ fs
      [] writeRes = "failed" -> fs
      [] writeRes = "torn" -> (dateStr :> TornData) @@ fs

\* The new records replacing the loaded ones (mutant of AppendRecords).
AppendRecordsOverwrite(existing, records) == records

\* append(dailyStats.Records, records...)
AppendRecords(existing, records) == existing \o records

\* saveRecords(timestamp, records) on the store fs: the DailyTrafficStats it
\* builds, the store it leaves and whether it returns an error.  An error of
\* ReadFile or Unmarshal is not looked at: dailyStats stays the zero value.
saveRecords(fs, timestamp, records, readErr, writeRes) ==
    LET dateStr == Format(timestamp)
        read == ReadFile(fs, dateStr, readErr)
        loaded == IF ~read.err THEN Unmarshal(read.data, ZeroDailyStats).v
                               ELSE ZeroDailyStats
        initialised == IF loaded.Date = EmptyDate
                       THEN [loaded EXCEPT !.Date = dateStr,
                                           !.Summary = <<>>,
                                           !.Records = <<>>]
                       ELSE loaded
        appended == [initialised EXCEPT !.Records = AppendRecords(@, records)]
        dailyStats == updateDailyStats(appended)
    IN  [err |-> writeRes # "ok",
         dailyStats |-> dailyStats,
         files |-> WriteFile(fs, dateStr, Marshal(dailyStats), writeRes)]

\* Sampling ticks taken in a run.
MaxTicks == 2

\* What collectOnce records in ret: the call that failed ("" for none), the
\* speeds of the estimator, the records built and the bucket written.
CollectRet(failed, speeds, records, t, dailyStats) ==
    [fn |-> "collectOnce", err |-> failed # "", failed |-> failed,
     speeds |-> speeds, records |-> records, at |-> t, dailyStats |-> dailyStats]

\* collectOnce.  srcErr1 / srcErr2: GetInterfaceStats fails inside
\* GetRealTimeSpeed / on collectOnce's own call; currentStats and stats are
\* the lists the two calls return; t is the clock of the tick (both readings
\* of time.Now() fall into the same clock step); readErr and writeRes are the
\* outcomes of saveRecords' ReadFile and WriteFile.
collectOnce(srcErr1, currentStats, t, srcErr2, stats, readErr, writeRes) ==
    /\ ticks < MaxTicks
    /\ ticks' = ticks + 1
    /\ UNCHANGED <<lastDiskIOStats, lastDiskIOStatsTime, diskPc>>
    /\ UNCHANGED <<retentionDays, location>>
    /\ UNCHANGED auxVars
    /\ UNCHANGED schedVars
    /\ IF srcErr1
       THEN /\ ret' = CollectRet("GetRealTimeSpeed", <<>>, <<>>, now, ZeroDailyStats)
            /\ UNCHANGED <<now, lastNetworkStats, lastNetworkStatsTime, files>>
       ELSE LET speeds == NetSpeeds(NetStatsMap(currentStats), t)
                cache == NetCacheAfter(NetStatsMap(currentStats), t)
            IN  /\ now' = t
                /\ lastNetworkStats' = cache.stats
                /\ lastNetworkStatsTime' = cache.time
                /\ IF srcErr2
                   THEN /\ ret' = CollectRet("GetInterfaceStats", speeds, <<>>, t,
                                             ZeroDailyStats)
                        /\ UNCHANGED files
                   ELSE LET records == TickRecords(t, speeds, NetStatsMap(stats))
                            saved == saveRecords(files, t, records, readErr, writeRes)
                        IN  /\ files' = saved.files
                            /\ ret' = CollectRet(IF saved.err THEN "saveRecords" ELSE "",
                                                 speeds, records, t, saved.dailyStats)

\* GetDailyStats answering a missing or unreadable file with an empty bucket
\* and no error (mutant of GetDailyStatsOf).
GetDailyStatsOfEmptyBucket(fs, date, readErr) ==
    LET read == ReadFile(fs, Format(date), readErr)
        decoded == Unmarshal(read.data, ZeroDailyStats)
    IN  [fn |-> "GetDailyStats", date |-> date, err |-> FALSE, stats |-> decoded.v]

\* GetDailyStats(date) on the store fs.
GetDailyStatsOf(fs, date, readErr) ==
    LET read == ReadFile(fs, Format(date), readErr)
        decoded == Unmarshal(read.data, ZeroDailyStats)
    IN  IF read.err \/ decoded.err
        THEN [fn |-> "GetDailyStats", date |-> date, err |-> TRUE,
              stats |-> ZeroDailyStats]
        ELSE [fn |-> "GetDailyStats", date |-> date, err |-> FALSE,
              stats |-> decoded.v]

GetDailyStats(date, readErr) ==
    /\ ret' = GetDailyStatsOf(files, date, readErr)
    /\ UNCHANGED storeVars
    /\ UNCHANGED schedVars

\* ------------------------------------------------------------------------
\* SpecCollect: sampling ticks and reads of the day files
\* ------------------------------------------------------------------------

\* Cumulative counters <<rx, tx>> an interface shows; en0's go up and down.
CollectCounters(name) ==
    IF name = "en0" THEN {<<20, 0>>, <<60, 20>>} ELSE {<<20, 20>>}

CollectNames == {"en0", "en1", "lo0"}

\* Lists the counter source returns in SpecCollect: at most MaxIfaces
\* interfaces, each with one of its counter values.
CollectNetSources ==
    UNION {{SortByName({NetStat(n, c[n][1], c[n][2], 1, 2) : n \in S}) :
               c \in {f \in [S -> UNION {CollectCounters(n) : n \in S}] :
                         \A n \in S : f[n] \in CollectCounters(n)}} :
           S \in {T \in SUBSET CollectNames : Cardinality(T) <= MaxIfaces}}

\* What collectOnce's own GetInterfaceStats returns after the estimator read
\* currentStats: the same list, or (counters moved on, interface gone) a
\* list of en0 alone or of nothing.
SecondReads(currentStats) ==
    {currentStats}
      \cup {stats \in CollectNetSources :
               Len(stats) <= 1 /\ \A i \in DOMAIN stats : stats[i].Name = "en0"}

\* The outcomes <<srcErr2, stats, readErr, writeRes>> of a tick whose first
\* read returned currentStats: at most one of them departs from the plain
\* case (second read equal to the first, no I/O failure).
TickOutcomes(srcErr1, currentStats) ==
    IF srcErr1 THEN {<<FALSE, <<>>, FALSE, "ok">>}
    ELSE {<<TRUE, <<>>, FALSE, "ok">>}
           \cup {<<FALSE, stats, FALSE, "ok">> : stats \in SecondReads(currentStats)}
           \cup {<<FALSE, currentStats, TRUE, "ok">>}
           \cup {<<FALSE, currentStats, FALSE, writeRes>> : writeRes \in WriteResults}

\* The clock of a tick: the previous reading, one ClockStep later, or the
\* start of a later day; no reading when the first source call fails.
TickTimes(srcErr1) ==
    IF srcErr1 THEN {now}
    ELSE {now, now + ClockStep}
           \cup {d * SecondsPerDay : d \in (Format(now) + 1)..MaxDay}

\* The days GetDailyStats is asked for.
QueryDates == {d * SecondsPerDay : d \in 0..MaxDay}

InitCollect == NewTrafficCollector /\ InitData

NextCollect ==
    \/ \E srcErr1 \in BOOLEAN :
          \E currentStats \in SourceLists(srcErr1, CollectNetSources),
             t \in TickTimes(srcErr1) :
             \E o \in TickOutcomes(srcErr1, currentStats) :
                collectOnce(srcErr1, currentStats, t, o[1], o[2], o[3], o[4])
    \/ \E date \in QueryDates, readErr \in BOOLEAN : GetDailyStats(date, readErr)

SpecCollect == InitCollect /\ [][NextCollect]_vars

\* ------------------------------------------------------------------------
\* Calendar: package time as the store uses it.  A time.Time is its wall
\* clock in seconds since 1 January 1970, 00:00, in its own location.
\* ------------------------------------------------------------------------

\* Years the queries are asked for: BaseYear .. BaseYear + MaxYears.
BaseYear == 2020

MaxYears == 4

Years == BaseYear..(BaseYear + MaxYears)

\* Years a date computed from them can fall into.
CalendarYears == (BaseYear - 1)..(BaseYear + MaxYears + 1)

IsLeap(year) == (year % 4 = 0 /\ year % 100 # 0) \/ year % 400 = 0

\* Days from 1 January 1970 to 1 January year.
DaysBeforeYear(year) ==
    365 * (year - 1970) + (year - 1969) \div 4 - (year - 1901) \div 100
        + (year - 1601) \div 400

\* Days from 1 January to the first of the month, in year.
DaysBeforeMonth(year, month) ==
    <<0, 31, 59, 90, 120, 151, 181, 212, 243, 273, 304, 334>>[month]
        + (IF month > 2 /\ IsLeap(year) THEN 1 ELSE 0)

\* time.Date(year, month, day, 0, 0, 0, 0, loc): month and day outside
\* their range are normalised (month 13 is January of the next year, day 0
\* the last day of the previous month).
Date(year, month, day) ==
    LET y == year + (month - 1) \div 12
        m == ((month - 1) % 12) + 1
    IN  (DaysBeforeYear(y) + DaysBeforeMonth(y, m) + day - 1) * SecondsPerDay

\* t.Date(): the year, month and day of t.
DateOf(t) ==
    LET year == CHOOSE y \in CalendarYears : Date(y, 1, 1) <= t /\ t < Date(y + 1, 1, 1)
        month == CHOOSE m \in 1..12 : Date(year, m, 1) <= t /\ t < Date(year, m + 1, 1)
    IN  [year |-> year, month |-> month,
         day |-> (t - Date(year, month, 1)) \div SecondsPerDay + 1]

\* t.AddDate(years, months, days): the date fields are added and
\* normalised, the time of day is kept.
AddDate(t, years, months, days) ==
    LET date == DateOf(t)
    IN  Date(date.year + years, date.month + months, date.day + days)
            + (t % SecondsPerDay)

\* t.Weekday(): Sunday = 0 .. Saturday = 6 (1 January 1970 was a Thursday).
Weekday(t) == ((t \div SecondsPerDay) + 4) % 7

\* t.ISOWeek(): the year and the week number of the Thursday of t's week.
ISOWeek(t) ==
    LET d == IF Weekday(t) = 0 THEN -3 ELSE 4 - Weekday(t)
        thursday == t + d * SecondsPerDay
        year == DateOf(thursday).year
    IN  <<year, ((thursday - Date(year, 1, 1)) \div SecondsPerDay) \div 7 + 1>>

\* The week start counted from 1 January's own week in every year
\* (getWeekStartDate as written).
getWeekStartDate(year, week) ==
    LET jan1 == Date(year, 1, 1)
        daysFromMonday == IF Weekday(jan1) - 1 < 0 THEN 6 ELSE Weekday(jan1) - 1
        firstMonday == AddDate(jan1, 0, 0, -daysFromMonday)
    IN  AddDate(firstMonday, 0, 0, (week - 1) * 7)

\* ------------------------------------------------------------------------
\* package stats: the weekly, monthly and recent rollups
\* ------------------------------------------------------------------------

\* What a rollup holds before its loop: zero totals, no day, made Summary.
EmptyRollup ==
    [DailyStats |-> <<>>, TotalBytesIn |-> 0, TotalBytesOut |-> 0, Summary |-> <<>>]

\* for key, value := range dailyStats.Summary { Summary[key] += value }
MergeSummary(summary, daily) ==
    [key \in DOMAIN summary \cup DOMAIN daily |->
        (IF key \in DOMAIN summary THEN summary[key] ELSE 0)
            + (IF key \in DOMAIN daily THEN daily[key] ELSE 0)]

\* The loop body of the rollups: a day whose GetDailyStats fails is skipped,
\* any other is appended and added to the totals and the Summary.
AddDay(acc, daily) ==
    IF daily.err THEN acc
    ELSE [DailyStats |-> Append(acc.DailyStats, daily.stats),
          TotalBytesIn |-> acc.TotalBytesIn + daily.stats.TotalBytesIn,
          TotalBytesOut |-> acc.TotalBytesOut + daily.stats.TotalBytesOut,
          Summary |-> MergeSummary(acc.Summary, daily.stats.Summary)]

\* The loop over the days dates, in order, on the store fs; unreadable is
\* the set of files whose ReadFile fails with an I/O error.
RECURSIVE CollectDays(_, _, _)
CollectDays(fs, dates, unreadable) ==
    IF dates = <<>> THEN EmptyRollup
    ELSE LET date == dates[Len(dates)]
         IN  AddDay(CollectDays(fs, SubSeq(dates, 1, Len(dates) - 1), unreadable),
                    GetDailyStatsOf(fs, date, Format(date) \in unreadable))

\* GetWeeklyStats(year, week) on the store fs: the WeeklyTrafficStats it
\* returns (its error is always nil).  Week is the text "<year>-W<week>".
GetWeeklyStatsOf(fs, year, week, unreadable) ==
    LET startDate == getWeekStartDate(year, week)
        endDate == AddDate(startDate, 0, 0, 6)
        acc == CollectDays(fs, [d \in 1..7 |-> AddDate(startDate, 0, 0, d - 1)],
                           unreadable)
    IN  [Week |-> <<year, week>>,
         StartDate |-> Format(startDate),
         EndDate |-> Format(endDate),
         TotalBytesIn |-> acc.TotalBytesIn,
         TotalBytesOut |-> acc.TotalBytesOut,
         DailyStats |-> acc.DailyStats,
         Summary |-> acc.Summary]

GetWeeklyStats(year, week, unreadable) ==
    /\ ret' = [fn |-> "GetWeeklyStats", year |-> year, week |-> week,
               unreadable |-> unreadable, err |-> FALSE,
               stats |-> GetWeeklyStatsOf(files, year, week, unreadable)]
    /\ UNCHANGED storeVars
    /\ UNCHANGED schedVars

\* calculateWeeklyStatsForMonth(year, month): GetWeeklyStats(year, week) for
\* the week numbers from that of the month's first day up to that of its
\* last day; none when the first number is the larger.
calculateWeeklyStatsForMonth(fs, year, month, unreadable) ==
    LET startDate == Date(year, month, 1)
        endDate == AddDate(startDate, 0, 1, -1)
        startWeek == ISOWeek(startDate)[2]
        endWeek == ISOWeek(endDate)[2]
    IN  [i \in 1..(endWeek - startWeek + 1) |->
            GetWeeklyStatsOf(fs, year, startWeek + i - 1, unreadable)]

\* GetMonthlyStats(year, month) on the store fs (its error is always nil).
\* Month is the text "<year>-<month>".
GetMonthlyStatsOf(fs, year, month, unreadable) ==
    LET startDate == Date(year, month, 1)
        endDate == AddDate(startDate, 0, 1, -1)
        numDays == (endDate - startDate) \div SecondsPerDay + 1
        acc == CollectDays(fs, [d \in 1..numDays |-> AddDate(startDate, 0, 0, d - 1)],
                           unreadable)
    IN  [Month |-> <<year, month>>,
         TotalBytesIn |-> acc.TotalBytesIn,
         TotalBytesOut |-> acc.TotalBytesOut,
         WeeklyStats |-> calculateWeeklyStatsForMonth(fs, year, month, unreadable),
         DailyStats |-> acc.DailyStats,
         Summary |-> acc.Summary]

GetMonthlyStats(year, month, unreadable) ==
    /\ ret' = [fn |-> "GetMonthlyStats", year |-> year, month |-> month,
               unreadable |-> unreadable, err |-> FALSE,
               stats |-> GetMonthlyStatsOf(files, year, month, unreadable)]
    /\ UNCHANGED storeVars
    /\ UNCHANGED schedVars

\* sort.Slice(allStats, Date <): buckets of one Date come from one file and
\* are equal, so their order does not show.
RECURSIVE SortByDate(_)
SortByDate(allStats) ==
    IF allStats = <<>> THEN <<>>
    ELSE LET i == CHOOSE k \in DOMAIN allStats :
                     \A j \in DOMAIN allStats : allStats[k].Date <= allStats[j].Date
         IN  <<allStats[i]>>
                \o SortByDate([j \in 1..(Len(allStats) - 1) |->
                                  IF j < i THEN allStats[j] ELSE allStats[j + 1]])

\* GetRecentStats(days) on the store fs.  The loop reads time.Now() once in
\* every round: clock[i] is the reading of round i (one reading per round,
\* none when days <= 0).
GetRecentStatsOf(fs, clock, unreadable) ==
    SortByDate(CollectDays(fs, [i \in DOMAIN clock |-> AddDate(clock[i], 0, 0, -(i - 1))],
                           unreadable).DailyStats)

GetRecentStats(days, clock, unreadable) ==
    /\ Len(clock) = (IF days > 0 THEN days ELSE 0)
    /\ \A i \in DOMAIN clock :
          /\ now <= clock[i]
          /\ \A j \in DOMAIN clock : i <= j => clock[i] <= clock[j]
    /\ now' = (IF clock = <<>> THEN now ELSE clock[Len(clock)])
    /\ ret' = [fn |-> "GetRecentStats", days |-> days, clock |-> clock,
               calledAt |-> now, unreadable |-> unreadable, err |-> FALSE,
               stats |-> GetRecentStatsOf(files, clock, unreadable)]
    /\ UNCHANGED <<lastNetworkStats, lastNetworkStatsTime, lastDiskIOStats,
                   lastDiskIOStatsTime, diskPc, files, retentionDays, location, ticks>>
    /\ UNCHANGED auxVars
    /\ UNCHANGED schedVars

\* ------------------------------------------------------------------------
\* Specification of the calendar of the rollups: every week and month of
\* Years is asked of an empty store
\* ------------------------------------------------------------------------

\* Week numbers asked for (an ISO year has 52 or 53 weeks).
MaxWeek == 53

InitCalendar == NewTrafficCollector /\ InitData

\* One query per run: a query leaves the store as it is, so a later query
\* returns what it returns when asked first.
NextCalendar ==
    \/ /\ ret.fn = "none"
       /\ \E year \in Years, week \in 1..MaxWeek : GetWeeklyStats(year, week, {})
    \/ /\ ret.fn = "none"
       /\ \E year \in Years, month \in 1..12 : GetMonthlyStats(year, month, {})

SpecCalendar == InitCalendar /\ [][NextCalendar]_vars

\* ------------------------------------------------------------------------
\* Specification of the rollups over a store: a data directory holding up
\* to MaxStoreDays day files around the turn of the year 2020/2021
\* ------------------------------------------------------------------------

\* The days that may have a file: Sunday 27 December 2020 (2020-W52),
\* Monday 28 December (2020-W53), Friday 1 January and Sunday 3 January 2021
\* (2020-W53), Monday 4, Tuesday 5 and Sunday 10 January (2021-W01) and
\* Sunday 31 January (2021-W04).
StoreDates ==
    {Date(2020, 12, 27), Date(2020, 12, 28), Date(2021, 1, 1), Date(2021, 1, 3),
     Date(2021, 1, 4), Date(2021, 1, 5), Date(2021, 1, 10), Date(2021, 1, 31)}

MaxStoreDays == 2

\* What a day file holds: the bucket of one tick with one interface, of one
\* tick with two, or nothing (a write that failed after truncating).
StoreKinds == {"one", "two", "torn"}

StoreRecord(t, name, rx, tx) ==
    TrafficRecord(t, FirstCallSpeedOf(name, NetStat(name, rx, tx, 0, 0), t),
                  NetStatsMap(<<NetStat(name, rx, tx, 0, 0)>>))

StoreFile(date, kind) ==
    LET t == date + ClockStep
        records == IF kind = "one"
                   THEN <<StoreRecord(t, "en0", 20, 20)>>
                   ELSE <<StoreRecord(t, "en0", 60, 20), StoreRecord(t, "en1", 20, 0)>>
    IN  IF kind = "torn" THEN TornData
        ELSE saveRecords(<<>>, t, records, FALSE, "ok").files[Format(t)]

Stores ==
    {[dateStr \in {Format(date) : date \in DOMAIN kinds} |->
         StoreFile(dateStr * SecondsPerDay, kinds[dateStr * SecondsPerDay])] :
        kinds \in UNION {[dates -> StoreKinds] :
                            dates \in {S \in SUBSET StoreDates :
                                          Cardinality(S) <= MaxStoreDays}}}

\* The clock at the start: ClockStep before midnight of 4 January 2021.
RollupNow == Date(2021, 1, 5) - ClockStep

InitRollup ==
    /\ NewTrafficCollector
    /\ now = RollupNow
    /\ lastNetworkStats = NilMap
    /\ lastNetworkStatsTime = ZeroTime
    /\ lastDiskIOStats = NilMap
    /\ lastDiskIOStatsTime = ZeroTime
    /\ diskPc = "idle"
    /\ files \in Stores
    /\ retentionDays = ExampleRetentionDays
    /\ location = UTC
    /\ ticks = 0
    /\ ret = [fn |-> "none"]
    /\ InitAux

\* I/O faults of one query: none, or one file that cannot be read.
Unreadable == {{}} \cup {{dateStr} : dateStr \in DOMAIN files}

MaxRecentDays == 3

\* The readings of time.Now() in the rounds of GetRecentStats(days): the
\* clock passes now + ClockStep before round k + 1.
RecentClocks(days) ==
    IF days <= 0 THEN {<<>>}
    ELSE {[i \in 1..days |-> IF i <= k THEN now ELSE now + ClockStep] : k \in 0..days}

\* One query per store: a query leaves the store as it is, so a later query
\* returns what it returns when asked first.
NextRollup ==
    \/ /\ ret.fn = "none"
       /\ \E year \in {2020, 2021}, week \in {1, 2, 52, 53}, unreadable \in Unreadable :
             GetWeeklyStats(year, week, unreadable)
    \/ /\ ret.fn = "none"
       /\ \E year \in {2020, 2021}, month \in {1, 2, 12}, unreadable \in Unreadable :
             GetMonthlyStats(year, month, unreadable)
    \/ /\ ret.fn = "none"
       /\ \E days \in -1..MaxRecentDays, unreadable \in Unreadable :
             \E clock \in RecentClocks(days) : GetRecentStats(days, clock, unreadable)

SpecRollup == InitRollup /\ [][NextRollup]_vars

\* ------------------------------------------------------------------------
\* package stats: cleanup
\* ------------------------------------------------------------------------

\* time.Parse("2006-01-02", dateStr): midnight of that day in UTC, as an
\* instant (seconds of UTC).
ParseDate(dateStr) == dateStr * SecondsPerDay

\* The instant of the wall clock reading t of a clock in location loc.
Instant(t, loc) == t - loc

\* date.Before(cutoff), cutoff being a time in location loc.
Before(date, cutoff, loc) == date < Instant(cutoff, loc)

\* cleanup's loop on the store fs at the clock reading t: every file whose
\* parsed date is before t.AddDate(0, 0, -days) is removed, unless its
\* os.Remove fails (removeFails), which is only printed.
cleanupOf(fs, t, days, loc, removeFails) ==
    LET cutoff == AddDate(t, 0, 0, -days)
        removed == {dateStr \in DOMAIN fs : Before(ParseDate(dateStr), cutoff, loc)}
                      \ removeFails
    IN  [dateStr \in DOMAIN fs \ removed |-> fs[dateStr]]

\* A directory entry that is not a day-bucket file.  Its name is
\* prefix + date + suffix, the date part being a day written as YYYY-MM-DD
\* or, for EmptyDate, the empty string; kind is what the entry is, and
\* inDataDir tells whether it lies in tc.dataDir or elsewhere.
DirEntry(prefix, date, suffix, kind, inDataDir) ==
    [prefix |-> prefix, date |-> date, suffix |-> suffix, kind |-> kind,
     inDataDir |-> inDataDir]

\* entry.IsDir(): true of a directory only (a symbolic link is not one).
IsDir(entry) == entry.kind = "dir"

\* strings.HasPrefix(entry.Name(), "traffic_").
HasPrefix(entry) == entry.prefix = "traffic_"

\* strings.TrimSuffix(strings.TrimPrefix(name, "traffic_"), ".json"): the
\* date part and what follows it; only a ".json" at the end is cut off.
TrimSuffix(entry) ==
    [date |-> entry.date, rest |-> IF entry.suffix = ".json" THEN "" ELSE entry.suffix]

\* time.Parse("2006-01-02", dateStr) returns no error: dateStr is a date
\* with nothing after it.
Parses(dateStr) == dateStr.date # EmptyDate /\ dateStr.rest = ""

\* cleanup's loop on the other entries es: what ReadDir lists are the
\* entries of the data directory; one that is no directory, has the prefix
\* and a date part that parses and is before the cutoff is removed.
cleanupOthers(es, t, days, loc) ==
    LET cutoff == AddDate(t, 0, 0, -days)
    IN  es \ {entry \in es :
                  /\ entry.inDataDir
                  /\ ~IsDir(entry)
                  /\ HasPrefix(entry)
                  /\ Parses(TrimSuffix(entry))
                  /\ Before(ParseDate(TrimSuffix(entry).date), cutoff, loc)}

\* cleanup.  readDirErr: os.ReadDir fails, cleanup returns its error and
\* removes nothing.
cleanup(readDirErr, removeFails) ==
    /\ ret' = [fn |-> "cleanup", err |-> readDirErr, at |-> now,
               removeFails |-> removeFails]
    /\ files' = IF readDirErr THEN files
                ELSE cleanupOf(files, now, retentionDays, location, removeFails)
    /\ others' = IF readDirErr THEN others
                 ELSE cleanupOthers(others, now, retentionDays, location)
    /\ UNCHANGED <<now, lastNetworkStats, lastNetworkStatsTime, lastDiskIOStats,
                   lastDiskIOStatsTime, diskPc, retentionDays, location, ticks>>
    /\ UNCHANGED <<netCalls, monitor>>
    /\ UNCHANGED schedVars

\* ------------------------------------------------------------------------
\* Specification of retention: a collector constructed with any retention,
\* in a time zone west of, at or east of UTC, over a data directory holding
\* up to MaxStoreDays day files; cleanup and sampling ticks in any order
\* ------------------------------------------------------------------------

\* Values of retentionDays: NewTrafficCollector stores any int.
RetentionChoices == {-1, 0, 1, ExampleRetentionDays}

\* Offsets of time.Local from UTC: UTC-8, UTC, UTC+8.
Locations == {-(8 * 60 * 60), UTC, 8 * 60 * 60}

\* The day the runs start on, and the times of day they start at.
RetentionToday == Date(2021, 1, 4)

RetentionTimes == {RetentionToday + s : s \in {0, ClockStep, 20 * 60 * 60}}

\* The days that may have a file: today, the two days before it and the
\* days around ExampleRetentionDays before it.
RetentionDates ==
    {AddDate(RetentionToday, 0, 0, -k) :
        k \in {0, 1, 2} \cup {ExampleRetentionDays + j : j \in {-1, 0, 1}}}

RetentionStores ==
    {[dateStr \in {Format(date) : date \in dates} |->
         StoreFile(dateStr * SecondsPerDay, "one")] :
        dates \in {S \in SUBSET RetentionDates : Cardinality(S) <= MaxStoreDays}}

InitRetention ==
    /\ NewTrafficCollector
    /\ now \in RetentionTimes
    /\ lastNetworkStats = NilMap
    /\ lastNetworkStatsTime = ZeroTime
    /\ lastDiskIOStats = NilMap
    /\ lastDiskIOStatsTime = ZeroTime
    /\ diskPc = "idle"
    /\ files \in RetentionStores
    /\ retentionDays \in RetentionChoices
    /\ location \in Locations
    /\ ticks = 0
    /\ ret = [fn |-> "none"]
    /\ InitAux

\* What the counter source returns at the ticks of SpecRetention.
RetentionSource == <<NetStat("en0", 20, 0, 1, 2)>>

\* Removals that fail in one cleanup: none, or that of one file.
RemoveFailures == {{}} \cup {{dateStr} : dateStr \in DOMAIN files}

NextRetention ==
    \/ \E readDirErr \in BOOLEAN, removeFails \in RemoveFailures :
          cleanup(readDirErr, removeFails)
    \/ \E t \in {now, now + ClockStep} :
          collectOnce(FALSE, RetentionSource, t, FALSE, RetentionSource, FALSE, "ok")

SpecRetention == InitRetention /\ [][NextRetention]_vars

\* ------------------------------------------------------------------------
\* Specification of the data directory: cleanup over a directory that holds
\* day files and up to MaxOthers other entries
\* ------------------------------------------------------------------------

MaxOthers == 1

\* The subsets of S of at most n elements.
RECURSIVE SubsetsUpTo(_, _)
SubsetsUpTo(S, n) ==
    IF n = 0 THEN {{}}
    ELSE LET smaller == SubsetsUpTo(S, n - 1)
         IN  smaller \cup {T \cup {x} : T \in smaller, x \in S}

\* The days the entries of SpecDir are named after: one long past, today.
DirDates ==
    {Format(AddDate(RetentionToday, 0, 0, -(ExampleRetentionDays + 1))),
     Format(RetentionToday)}

\* The day files of SpecDir.
DirStores ==
    {[dateStr \in dates |-> StoreFile(dateStr * SecondsPerDay, "one")] :
        dates \in SUBSET DirDates}

\* The other entries: in or outside the data directory, a file, a
\* directory or a symbolic link, named with the bucket prefix or another
\* one, a date long past, today's or none, and ".json", nothing or ".tmp"
\* after it.  A regular file traffic_<date>.json of the data directory is a
\* day file and belongs to files.
DirEntries ==
    {DirEntry(prefix, date, suffix, kind, inDataDir) :
        prefix \in {"traffic_", "backup_"},
        date \in DirDates \cup {EmptyDate},
        suffix \in {".json", "", ".tmp"},
        kind \in {"file", "dir", "symlink"},
        inDataDir \in BOOLEAN}
      \ {DirEntry("traffic_", date, ".json", "file", TRUE) : date \in DirDates}

\* The name of a day file of the data directory.
IsNameOfDayFile(entry, fs) ==
    /\ entry.inDataDir
    /\ entry.prefix = "traffic_"
    /\ entry.suffix = ".json"
    /\ entry.date \in DOMAIN fs

InitDir ==
    /\ NewTrafficCollector
    /\ now \in RetentionTimes
    /\ lastNetworkStats = NilMap
    /\ lastNetworkStatsTime = ZeroTime
    /\ lastDiskIOStats = NilMap
    /\ lastDiskIOStatsTime = ZeroTime
    /\ diskPc = "idle"
    /\ files \in DirStores
    /\ retentionDays \in {1, ExampleRetentionDays}
    /\ location = UTC
    /\ ticks = 0
    /\ ret = [fn |-> "none"]
    /\ netCalls = NoCalls
    /\ others \in {S \in SubsetsUpTo(DirEntries, MaxOthers) :
                       \A entry \in S : ~IsNameOfDayFile(entry, files)}
    /\ monitor = NoMonitor

NextDir ==
    \/ \E readDirErr \in BOOLEAN, removeFails \in RemoveFailures :
          cleanup(readDirErr, removeFails)
    \/ /\ ticks = 0
       /\ collectOnce(FALSE, RetentionSource, now, FALSE, RetentionSource, FALSE, "ok")

SpecDir == InitDir /\ [][NextDir]_vars

\* ------------------------------------------------------------------------
\* Claims about the collector's state machine (SpecSched, FairSched)
\* ------------------------------------------------------------------------

collectorState == <<isCollecting, stopChan, started, collectPc, cleanupPc, panicked>>

\* C1: a Start call made while the collector is collecting returns
\* "traffic collector is already running", leaves the collector's state as it
\* was and launches no further collectLoop or cleanupLoop.
C1_StartWhileRunningRejected ==
    [][(isCollecting /\ \E mkdirOk \in BOOLEAN : Start(mkdirOk))
          => /\ lastCall' = [op |-> "Start", ret |-> ErrAlreadyRunning, was |-> TRUE]
             /\ UNCHANGED collectorState]_vars

C1_Witness ==
    /\ lastCall = [op |-> "Start", ret |-> ErrAlreadyRunning, was |-> TRUE]
    /\ isCollecting
    /\ started = 1

\* C2: a Stop call on a collector that is not collecting (never started, or
\* stopped before) changes nothing, and a Stop call never waits for a loop:
\* it can always be made, also after the loops have exited.
C2_StopWhenStoppedIsNoop ==
    /\ [][(~isCollecting /\ Stop)
            => /\ lastCall' = [op |-> "Stop", ret |-> "returned", was |-> FALSE]
               /\ UNCHANGED collectorState]_vars
    /\ [](~panicked => ENABLED Stop)

C2_Witness ==
    /\ lastCall = [op |-> "Stop", ret |-> "returned", was |-> FALSE]
    /\ started = 1
    /\ stopChan = "closed"
    /\ collectPc[1] = "done"
    /\ cleanupPc[1] = "done"

AllLoopsDone ==
    \A g \in Gens : collectPc[g] \in {"none", "done"} /\ cleanupPc[g] \in {"none", "done"}

\* C3: after a Stop call on a collecting collector every collectLoop and
\* cleanupLoop eventually returns; a loop returns only from its select and only
\* once the stop channel is closed, a tick in progress first runs to its end,
\* a loop that returned stays returned, and the channel, closed once, stays closed.
C3_StopTerminatesLoops ==
    /\ (lastCall.op = "Stop" /\ lastCall.was) ~> AllLoopsDone
    /\ [][\A g \in Gens :
            /\ (collectPc[g] = "tick" => collectPc'[g] \in {"tick", "select"})
            /\ (cleanupPc[g] = "tick" => cleanupPc'[g] \in {"tick", "select"})
            /\ (collectPc[g] # "done" /\ collectPc'[g] = "done" => stopChan = "closed")
            /\ (cleanupPc[g] # "done" /\ cleanupPc'[g] = "done" => stopChan = "closed")
            /\ (collectPc[g] = "done" => collectPc'[g] = "done")
            /\ (cleanupPc[g] = "done" => cleanupPc'[g] = "done")]_vars
    /\ [][stopChan = "closed" => stopChan' = "closed"]_vars

C3_Witness ==
    /\ lastCall.op = "Stop" /\ lastCall.was
    /\ stopChan = "closed"
    /\ collectPc[1] = "tick"
    /\ cleanupPc[1] = "done"

\* C19: an error returned by collectOnce does not end the sampling loop (it
\* is back at its select, where the next tick can be taken), an error
\* returned by cleanup ends neither loop, and a loop has returned only
\* after Stop closed the channel.
C19_LoopErrorsRecoveredLocally ==
    /\ [][\A g \in Gens :
            (collectPc[g] = "tick" /\ collectPc'[g] # "tick")
               => /\ collectPc'[g] = "select"
                  /\ cleanupPc' = cleanupPc]_vars
    /\ [][\A g \in Gens :
            (cleanupPc[g] = "tick" /\ cleanupPc'[g] # "tick")
               => /\ cleanupPc'[g] = "select"
                  /\ collectPc' = collectPc]_vars
    /\ [](\A g \in Gens :
            /\ (collectPc[g] = "done" \/ cleanupPc[g] = "done") => stopChan = "closed"
            /\ collectPc[g] = "select" => ENABLED collectLoopTick(g)
            /\ cleanupPc[g] = "select" => ENABLED cleanupLoopTick(g))

\* collectOnce returned an error, the channel is open, and the same loop is
\* in its next tick while the retention loop is alive.
C19_Witness ==
    /\ ret.fn = "collectLoop" /\ ret.err
    /\ stopChan = "open"
    /\ collectPc[ret.g] = "tick"
    /\ cleanupPc[ret.g] \in {"select", "tick"}

\* ------------------------------------------------------------------------
\* Claims about the rate estimators (SpecRate)
\* ------------------------------------------------------------------------

\* The most recent call was a GetRealTimeSpeedWithInterval that returned speeds.
NetReturned == ret.fn = "GetRealTimeSpeedWithInterval" /\ ~ret.err

\* The most recent call was a GetDiskSpeedWithInterval that returned speeds.
DiskReturned == ret.fn = "GetDiskSpeedWithInterval" /\ ret.returned /\ ~ret.err

\* The call found a cached baseline / the time elapsed since that baseline.
RetHadBaseline == ~ret.prev.isNil /\ ret.prevTime # ZeroTime

RetTimeDiff == ret.at - ret.prevTime

RetGuardRejects == RetTimeDiff <= 0 \/ RetTimeDiff >= 60

SpeedNames == {ret.speeds[i].Name : i \in DOMAIN ret.speeds}

\* C4: when a call finds a baseline and the time elapsed since it is <= 0 or
\* >= 60 s, it returns no speed entry at all and the cache (map and time) is
\* the snapshot the call read; for the network and for the disk estimator.
C4_GuardDiscardsAndRebases ==
    /\ (NetReturned /\ RetHadBaseline /\ RetGuardRejects)
          => /\ ret.speeds = <<>>
             /\ lastNetworkStats = MakeMap(ret.cur)
             /\ lastNetworkStatsTime = ret.at
    /\ (DiskReturned /\ RetHadBaseline /\ RetGuardRejects)
          => /\ ret.speeds = <<>>
             /\ lastDiskIOStats = MakeMap(ret.cur)
             /\ lastDiskIOStatsTime = ret.at

C4_Witness ==
    /\ NetReturned /\ RetHadBaseline
    /\ RetTimeDiff >= 60
    /\ DOMAIN ret.prev.m = {"en0", "lo0"}
    /\ DOMAIN ret.cur = {"en0", "lo0"}
    /\ ret.cur # ret.prev.m
    /\ ret.speeds = <<>>
    /\ lastNetworkStats.m = ret.cur

\* The rate the claims expect of one counter field.
ExpectedRate(current, last, timeDiff) ==
    IF current < last THEN 0 ELSE (current - last) \div timeDiff

\* C5: with 0 < timeDiff < 60 every rate returned is >= 0; a field whose
\* counter is lower than in the baseline has rate 0 while the other fields of
\* the same resource keep the rate of their own delta, and the totals returned
\* are the current counters.  calculateDiskSpeed does the same per field.
C5_CounterResetGivesZero ==
    /\ (NetReturned /\ RetHadBaseline /\ ~RetGuardRejects) =>
          \A i \in DOMAIN ret.speeds :
             LET e == ret.speeds[i]
                 c == ret.cur[e.Name]
                 l == ret.prev.m[e.Name]
             IN  /\ e.DownloadSpeed >= 0 /\ e.UploadSpeed >= 0
                 /\ (c.BytesReceived < l.BytesReceived => e.DownloadSpeed = 0)
                 /\ (c.BytesSent < l.BytesSent => e.UploadSpeed = 0)
                 /\ e.DownloadSpeed = ExpectedRate(c.BytesReceived, l.BytesReceived, RetTimeDiff)
                 /\ e.UploadSpeed = ExpectedRate(c.BytesSent, l.BytesSent, RetTimeDiff)
                 /\ e.DownloadTotal = c.BytesReceived
                 /\ e.UploadTotal = c.BytesSent
    /\ ret.fn = "calculateDiskSpeed" =>
          LET e == ret.speed
              c == ret.current
              l == ret.last
          IN  /\ e.ReadSpeed >= 0 /\ e.WriteSpeed >= 0
              /\ e.ReadIOPS >= 0 /\ e.WriteIOPS >= 0
              /\ (c.ReadBytes < l.ReadBytes => e.ReadSpeed = 0)
              /\ (c.WriteBytes < l.WriteBytes => e.WriteSpeed = 0)
              /\ (c.ReadCount < l.ReadCount => e.ReadIOPS = 0)
              /\ (c.WriteCount < l.WriteCount => e.WriteIOPS = 0)
              /\ e.ReadSpeed = ExpectedRate(c.ReadBytes, l.ReadBytes, ret.timeDiff)
              /\ e.WriteSpeed = ExpectedRate(c.WriteBytes, l.WriteBytes, ret.timeDiff)
              /\ e.ReadIOPS = ExpectedRate(c.ReadCount, l.ReadCount, ret.timeDiff)
              /\ e.WriteIOPS = ExpectedRate(c.WriteCount, l.WriteCount, ret.timeDiff)

\* en0's download counter fell (60 -> 20) while its upload counter rose (0 -> 20).
C5_Witness ==
    /\ NetReturned /\ RetHadBaseline /\ RetTimeDiff = 20
    /\ "en0" \in DOMAIN ret.prev.m /\ "en0" \in DOMAIN ret.cur
    /\ ret.prev.m["en0"].BytesReceived = 60 /\ ret.cur["en0"].BytesReceived = 20
    /\ ret.prev.m["en0"].BytesSent = 0 /\ ret.cur["en0"].BytesSent = 20
    /\ \E i \in DOMAIN ret.speeds :
          /\ ret.speeds[i].Name = "en0"
          /\ ret.speeds[i].DownloadSpeed = 0
          /\ ret.speeds[i].UploadSpeed = 1
          /\ ret.speeds[i].DownloadTotal = 20

\* C6: for a resource of both snapshots with 0 < timeDiff < 60 and a counter
\* that did not fall, the rate is (current - previous) / timeDiff cut to an
\* integer; 1000 -> 2000 and 500 -> 1500 over 2 s give 500 and 500.
C6_RateIsDeltaOverTime ==
    /\ (NetReturned /\ RetHadBaseline /\ ~RetGuardRejects) =>
          \A i \in DOMAIN ret.speeds :
             LET e == ret.speeds[i]
                 c == ret.cur[e.Name]
                 l == ret.prev.m[e.Name]
             IN  /\ (c.BytesReceived >= l.BytesReceived =>
                       e.DownloadSpeed = (c.BytesReceived - l.BytesReceived) \div RetTimeDiff)
                 /\ (c.BytesSent >= l.BytesSent =>
                       e.UploadSpeed = (c.BytesSent - l.BytesSent) \div RetTimeDiff)
    /\ ret.fn = "calculateDiskSpeed" =>
          LET e == ret.speed
              c == ret.current
              l == ret.last
          IN  /\ (c.ReadBytes >= l.ReadBytes =>
                    e.ReadSpeed = (c.ReadBytes - l.ReadBytes) \div ret.timeDiff)
              /\ (c.WriteBytes >= l.WriteBytes =>
                    e.WriteSpeed = (c.WriteBytes - l.WriteBytes) \div ret.timeDiff)
              /\ (c.ReadCount >= l.ReadCount =>
                    e.ReadIOPS = (c.ReadCount - l.ReadCount) \div ret.timeDiff)
              /\ (c.WriteCount >= l.WriteCount =>
                    e.WriteIOPS = (c.WriteCount - l.WriteCount) \div ret.timeDiff)
    /\ NetReturned =>
          LET e == NetworkSpeedOf("en0", NetStat("en0", 2000, 1500, 0, 0),
                                  NetStat("en0", 1000, 500, 0, 0), 2, ret.at)
          IN  e.DownloadSpeed = 500 /\ e.UploadSpeed = 500

\* en0's download counter rose by 60 in 40 s: 1.5 B/s, returned as 1.
C6_Witness ==
    /\ NetReturned /\ RetHadBaseline /\ RetTimeDiff = 40
    /\ "en0" \in DOMAIN ret.prev.m /\ "en0" \in DOMAIN ret.cur
    /\ ret.prev.m["en0"].BytesReceived = 0 /\ ret.cur["en0"].BytesReceived = 60
    /\ \E i \in DOMAIN ret.speeds :
          ret.speeds[i].Name = "en0" /\ ret.speeds[i].DownloadSpeed = 1

\* C7 (as claimed): on the first call and on every call that passes the
\* elapsed-time guard, the names of the speeds returned are exactly the names
\* of the current snapshot, and a name without a baseline entry gets an entry
\* with rates 0 and the current counters as totals.
C7_EveryCurrentResourceSampled ==
    (NetReturned /\ (~RetHadBaseline \/ ~RetGuardRejects)) =>
        /\ SpeedNames = DOMAIN ret.cur
        /\ \A i \in DOMAIN ret.speeds :
              LET e == ret.speeds[i]
              IN  (~RetHadBaseline \/ e.Name \notin DOMAIN ret.prev.m) =>
                     /\ e.DownloadSpeed = 0 /\ e.UploadSpeed = 0
                     /\ e.DownloadTotal = ret.cur[e.Name].BytesReceived
                     /\ e.UploadTotal = ret.cur[e.Name].BytesSent

\* ------------------------------------------------------------------------
\* Claims about sampling ticks and the day files (SpecCollect)
\* ------------------------------------------------------------------------

\* A step of collectOnce, and what it returned.
CollectStep == ticks' = ticks + 1 /\ ret'.fn = "collectOnce"

\* C8: when a counter-source call of a sampling tick fails (collectOnce
\* returns that error), no record is appended to the store and the cached
\* previous snapshot and its timestamp are the same after the tick as before.
C8_SourceFailureSkipsTick ==
    [][(CollectStep /\ ret'.failed \in {"GetRealTimeSpeed", "GetInterfaceStats"})
          => /\ files' = files
             /\ lastNetworkStats' = lastNetworkStats
             /\ lastNetworkStatsTime' = lastNetworkStatsTime]_vars

\* The record list persisted for the day of t in the store fs.
PersistedRecords(fs, t) ==
    IF GetDailyStatsOf(fs, t, FALSE).err THEN <<>>
    ELSE GetDailyStatsOf(fs, t, FALSE).stats.Records

\* C9: after saveRecords(t, records) returns nil, GetDailyStats for the date
\* of t returns a bucket whose record list is the list persisted before the
\* call followed by records, and whose totals, peaks and summary are the
\* ones computed at write time.
C9_AppendRoundTrip ==
    [][(CollectStep /\ ~ret'.err)
          => LET got == GetDailyStatsOf(files', ret'.at, FALSE)
             IN  /\ ~got.err
                 /\ got.stats.Records = PersistedRecords(files, ret'.at) \o ret'.records
                 /\ got.stats = ret'.dailyStats]_vars

\* The largest element of a set of naturals (0 for the empty set).
MaxOf(S) == IF S = {} THEN 0 ELSE CHOOSE m \in S : \A x \in S : x <= m

\* The aggregates of bucket b are the stated functions of b.Records, and
\* recomputing them changes nothing.
AggregatesArePure(b) ==
    LET idx(r) == {i \in DOMAIN b.Records : b.Records[i].Interface = r}
        names == {b.Records[i].Interface : i \in DOMAIN b.Records}
        maxIn == [r \in names |-> MaxOf({b.Records[i].BytesIn : i \in idx(r)})]
        maxOut == [r \in names |-> MaxOf({b.Records[i].BytesOut : i \in idx(r)})]
    IN  /\ DOMAIN b.Summary = {<<r, dir>> : r \in names, dir \in {"_in", "_out"}}
        /\ \A r \in names : /\ b.Summary[<<r, "_in">>] = maxIn[r]
                            /\ b.Summary[<<r, "_out">>] = maxOut[r]
        /\ b.TotalBytesIn = SumOver(maxIn, names)
        /\ b.TotalBytesOut = SumOver(maxOut, names)
        /\ b.PeakSpeedIn = MaxOf({b.Records[i].SpeedIn : i \in DOMAIN b.Records})
        /\ b.PeakSpeedOut = MaxOf({b.Records[i].SpeedOut : i \in DOMAIN b.Records})
        /\ updateDailyStats(b) = b

\* The buckets persisted in the store: the files that decode.
PersistedBuckets ==
    {Unmarshal(files[d], ZeroDailyStats).v :
        d \in {e \in DOMAIN files : ~Unmarshal(files[e], ZeroDailyStats).err}}

\* A bucket of three disk0 records with cumulative bytes-in 100, 300, 250.
ExampleBucket ==
    LET rec(bytesIn, speedIn) ==
            [Timestamp |-> 0, Interface |-> "disk0", BytesIn |-> bytesIn,
             BytesOut |-> 0, PacketsIn |-> 0, PacketsOut |-> 0,
             SpeedIn |-> speedIn, SpeedOut |-> 0]
    IN  [ZeroDailyStats EXCEPT !.Date = 0,
                               !.Records = <<rec(100, 5), rec(300, 10), rec(250, 0)>>]

\* C10: the aggregates of every persisted day bucket (and of every bucket
\* GetDailyStats returns) are a pure function of its record list: per
\* resource the maximum cumulative bytes, totals the sum of these maxima,
\* peaks the maximum speeds; recomputing yields the same; cumulative
\* 100, 300, 250 give a total of 300.
C10_AggregatesPureFunctionOfRecords ==
    /\ \A b \in PersistedBuckets : AggregatesArePure(b)
    /\ (ret.fn = "GetDailyStats" /\ ~ret.err) => AggregatesArePure(ret.stats)
    /\ updateDailyStats(ExampleBucket).TotalBytesIn = 300
    /\ updateDailyStats(ExampleBucket).Summary[<<"disk0", "_in">>] = 300
    /\ updateDailyStats(ExampleBucket).PeakSpeedIn = 10

\* A persisted bucket of two resources in which a resource's cumulative
\* bytes-in went down from one record to a later one.
C10_Witness ==
    \E b \in PersistedBuckets :
       /\ Cardinality({b.Records[i].Interface : i \in DOMAIN b.Records}) >= 2
       /\ \E i \in DOMAIN b.Records, j \in DOMAIN b.Records :
             /\ i < j
             /\ b.Records[i].Interface = b.Records[j].Interface
             /\ b.Records[j].BytesIn < b.Records[i].BytesIn
             /\ b.TotalBytesIn > 0

\* C11: GetDailyStats(date) changes no file; for a date without a file it
\* returns no bucket (the read error); when it returns a bucket, it is the
\* one persisted for that date, and a persisted bucket whose file can be
\* read is returned.
C11_GetDailyStatsReadsOnly ==
    /\ [][ret'.fn = "GetDailyStats"
            => /\ files' = files
               /\ Format(ret'.date) \notin DOMAIN files
                     => (ret'.err /\ ret'.stats = ZeroDailyStats)
               /\ ~ret'.err
                     => /\ Format(ret'.date) \in DOMAIN files
                        /\ Marshal(ret'.stats) = files[Format(ret'.date)]]_vars
    /\ [](\A date \in QueryDates :
            (Format(date) \in DOMAIN files /\ files[Format(date)] # TornData)
               => /\ ~GetDailyStatsOf(files, date, FALSE).err
                  /\ Marshal(GetDailyStatsOf(files, date, FALSE).stats)
                        = files[Format(date)])

\* GetDailyStats found no file for its date while another day has one.
C11_Witness ==
    /\ ret.fn = "GetDailyStats" /\ ret.err
    /\ Format(ret.date) \notin DOMAIN files
    /\ DOMAIN files # {}

\* C20: when the day's file exists but cannot be read or parsed, saveRecords
\* returns an error and leaves the file as it was; a bucket that held
\* records is never replaced by one holding only the new records.
C20_UnreadableBucketFailsAppend ==
    [][(CollectStep /\ ret'.failed \notin {"GetRealTimeSpeed", "GetInterfaceStats"}
          /\ Format(ret'.at) \in DOMAIN files)
          => /\ files[Format(ret'.at)] = TornData
                   => (ret'.err /\ files'[Format(ret'.at)] = files[Format(ret'.at)])
             /\ (files[Format(ret'.at)] # TornData /\ ~ret'.err)
                   => PersistedRecords(files', ret'.at)
                         = PersistedRecords(files, ret'.at) \o ret'.records]_vars

\* ------------------------------------------------------------------------
\* Claims about the calendar of the rollups (SpecCalendar)
\* ------------------------------------------------------------------------

\* The number of ISO weeks of a year: 28 December is always in the last one.
ISOWeeksIn(year) == ISOWeek(Date(year, 12, 28))[2]

\* C12: for every ISO year and every valid ISO week of it, the rollup
\* GetWeeklyStats(year, week) returns starts on the Monday of ISO week
\* (year, week) and ends on the Sunday six days later: every date d from
\* StartDate to EndDate has d.ISOWeek() = (year, week).
C12_WeekRangeIsTheISOWeek ==
    (ret.fn = "GetWeeklyStats" /\ ret.week <= ISOWeeksIn(ret.year))
        => /\ Weekday(ret.stats.StartDate * SecondsPerDay) = 1
           /\ ret.stats.EndDate = ret.stats.StartDate + 6
           /\ \A dateStr \in ret.stats.StartDate..ret.stats.EndDate :
                  ISOWeek(dateStr * SecondsPerDay) = <<ret.year, ret.week>>

\* The ISO weeks (year and number) that hold a day of the month.
WeeksOverlapping(year, month) ==
    {ISOWeek(dateStr * SecondsPerDay) :
        dateStr \in Format(Date(year, month, 1))..(Format(Date(year, month + 1, 1)) - 1)}

\* A weekly rollup covers the ISO week isoWeek: Monday to Sunday of it.
CoversISOWeek(weekStats, isoWeek) ==
    /\ Weekday(weekStats.StartDate * SecondsPerDay) = 1
    /\ weekStats.EndDate = weekStats.StartDate + 6
    /\ ISOWeek(weekStats.StartDate * SecondsPerDay) = isoWeek

\* C15: the WeeklyStats of GetMonthlyStats(year, month) holds one weekly
\* rollup for every ISO week that overlaps the month, the weeks that
\* straddle its first and last day (and the turn of the year) included.
C15_MonthListsEveryOverlappingWeek ==
    ret.fn = "GetMonthlyStats"
        => \A isoWeek \in WeeksOverlapping(ret.year, ret.month) :
              Cardinality({i \in DOMAIN ret.stats.WeeklyStats :
                              CoversISOWeek(ret.stats.WeeklyStats[i], isoWeek)}) = 1

\* ------------------------------------------------------------------------
\* Claims about the rollups over a store (SpecRollup)
\* ------------------------------------------------------------------------

\* The days with a persisted bucket (a file that decodes) in the store fs.
BucketDates(fs) == {dateStr \in DOMAIN fs : ~Unmarshal(fs[dateStr], ZeroDailyStats).err}

\* The days of BucketDates(fs) in ISO week (year, week) / in the month.
BucketDatesOfWeek(fs, year, week) ==
    {dateStr \in BucketDates(fs) : ISOWeek(dateStr * SecondsPerDay) = <<year, week>>}

BucketDatesOfMonth(fs, year, month) ==
    {dateStr \in BucketDates(fs) :
        /\ DateOf(dateStr * SecondsPerDay).year = year
        /\ DateOf(dateStr * SecondsPerDay).month = month}

\* A rollup of nothing: zero totals, empty summary, empty daily list.
IsZeroRollup(stats) ==
    /\ stats.TotalBytesIn = 0
    /\ stats.TotalBytesOut = 0
    /\ stats.Summary = <<>>
    /\ stats.DailyStats = <<>>

\* C13: GetWeeklyStats and GetMonthlyStats never return an error; for a
\* requested ISO week or month in which no day bucket is persisted they
\* return a rollup with zero totals, an empty summary and an empty daily
\* list.
C13_EmptyPeriodGivesZeroRollup ==
    /\ ret.fn \in {"GetWeeklyStats", "GetMonthlyStats"} => ~ret.err
    /\ (/\ ret.fn = "GetWeeklyStats"
        /\ ret.week <= ISOWeeksIn(ret.year)
        /\ BucketDatesOfWeek(files, ret.year, ret.week) = {})
            => IsZeroRollup(ret.stats)
    /\ (/\ ret.fn = "GetMonthlyStats"
        /\ BucketDatesOfMonth(files, ret.year, ret.month) = {})
            => IsZeroRollup(ret.stats)

\* The buckets of the days dates in the store fs, in ascending date order.
RECURSIVE AscendingBuckets(_, _)
AscendingBuckets(fs, dates) ==
    IF dates = {} THEN <<>>
    ELSE LET first == CHOOSE d \in dates : \A e \in dates : d <= e
         IN  <<Unmarshal(fs[first], ZeroDailyStats).v>>
                \o AscendingBuckets(fs, dates \ {first})

\* The sum of a list of numbers.
RECURSIVE SumOfValues(_)
SumOfValues(values) ==
    IF values = <<>> THEN 0 ELSE Head(values) + SumOfValues(Tail(values))

\* stats lists exactly buckets, in their order, with the totals and the
\* per-key Summary being the sums over them.
IsRollupOf(stats, buckets) ==
    LET keys == UNION {DOMAIN buckets[i].Summary : i \in DOMAIN buckets}
    IN  /\ stats.DailyStats = buckets
        /\ stats.TotalBytesIn
              = SumOfValues([i \in DOMAIN buckets |-> buckets[i].TotalBytesIn])
        /\ stats.TotalBytesOut
              = SumOfValues([i \in DOMAIN buckets |-> buckets[i].TotalBytesOut])
        /\ DOMAIN stats.Summary = keys
        /\ \A key \in keys :
              stats.Summary[key]
                = SumOfValues([i \in DOMAIN buckets |->
                                  IF key \in DOMAIN buckets[i].Summary
                                  THEN buckets[i].Summary[key] ELSE 0])

\* C14: with every file readable, a weekly (monthly) rollup lists exactly
\* the persisted day buckets whose dates fall in the requested ISO week
\* (month), in ascending date order; its totals are the sums of their
\* totals and its Summary is, per key, the sum of their Summary values.
\* Days without a bucket contribute nothing.
C14_RollupIsSumOfPersistedBuckets ==
    /\ (/\ ret.fn = "GetWeeklyStats"
        /\ ret.week <= ISOWeeksIn(ret.year)
        /\ ret.unreadable = {})
            => IsRollupOf(ret.stats,
                          AscendingBuckets(files, BucketDatesOfWeek(files, ret.year, ret.week)))
    /\ (ret.fn = "GetMonthlyStats" /\ ret.unreadable = {})
            => IsRollupOf(ret.stats,
                          AscendingBuckets(files, BucketDatesOfMonth(files, ret.year, ret.month)))

\* The persisted buckets of the days today, today - 1, .., today - (n - 1),
\* in ascending date order.
RecentBuckets(fs, today, n) ==
    AscendingBuckets(fs, {dateStr \in BucketDates(fs) :
                             today - (n - 1) <= dateStr /\ dateStr <= today})

\* C16: with every file readable, GetRecentStats(n) returns exactly the
\* persisted day buckets of today, today - 1, .., today - (n - 1), in
\* ascending date order (so at most n entries, none for a day without a
\* bucket), today being the date at the call or at its return; for n <= 0
\* the result is empty.
C16_RecentIsTheLastNDays ==
    (ret.fn = "GetRecentStats" /\ ret.unreadable = {})
        => /\ ~ret.err
           /\ Len(ret.stats) <= (IF ret.days > 0 THEN ret.days ELSE 0)
           /\ \E today \in {Format(ret.calledAt), Format(now)} :
                  ret.stats = RecentBuckets(files, today, ret.days)

\* ------------------------------------------------------------------------
\* Claims about retention (SpecRetention)
\* ------------------------------------------------------------------------

\* A step of cleanup in which os.ReadDir and every os.Remove succeeded.
CleanupStep == ret'.fn = "cleanup" /\ ~ret'.err /\ ret'.removeFails = {} /\ now' = now

\* C17: after cleanup ran with retentionDays = N and every removal
\* succeeded, no day bucket dated strictly before today - N remains, and
\* every bucket dated today - N .. today is still there with the content it
\* had.
C17_CleanupKeepsTheLastNDays ==
    [][CleanupStep
          => LET today == Format(now)
             IN  /\ \A dateStr \in DOMAIN files' : dateStr >= today - retentionDays
                 /\ \A dateStr \in DOMAIN files :
                        (today - retentionDays <= dateStr /\ dateStr <= today)
                           => /\ dateStr \in DOMAIN files'
                              /\ files'[dateStr] = files[dateStr]]_vars

\* C18: whatever retentionDays the collector was constructed with, at
\* every time of day and in every time zone, cleanup leaves today's day
\* bucket (the one saveRecords reads and rewrites at the current tick) in
\* place.
C18_CleanupNeverDeletesToday ==
    [][ret'.fn = "cleanup"
          => (Format(now) \in DOMAIN files
                 => /\ Format(now) \in DOMAIN files'
                    /\ files'[Format(now)] = files[Format(now)])]_vars

\* ------------------------------------------------------------------------
\* Claims about the order and content of the records (SpecCollect)
\* ------------------------------------------------------------------------

\* The list a is the beginning of the list b.
IsPrefix(a, b) == Len(a) <= Len(b) /\ a = SubSeq(b, 1, Len(a))

\* C21: with the one collector writing, the records of every persisted day
\* bucket are in the order the sampling ticks produced them (the clock of
\* the tick at position i is not after the one at position j > i), and an
\* append that returns nil leaves the records that were in the bucket in
\* place, in their order, at the front of the list.
C21_RecordsInProductionOrder ==
    /\ [](\A b \in PersistedBuckets :
              \A i \in DOMAIN b.Records, j \in DOMAIN b.Records :
                  i < j => b.Records[i].Timestamp <= b.Records[j].Timestamp)
    /\ [][(CollectStep /\ ret'.failed = "")
              => IsPrefix(PersistedRecords(files, ret'.at),
                          PersistedRecords(files', ret'.at))]_vars

\* ------------------------------------------------------------------------
\* Claims about the disk estimator (SpecRate)
\* ------------------------------------------------------------------------

\* The utilization u is what the busy-time counters last and current, read
\* timeDiff seconds apart, give: 0 when the counter decreased, the busy
\* share of the interval in percent when that is at most 100, 100 above.
UtilizationIsClamped(u, last, current, timeDiff) ==
    LET ioDiff == current.IOTime - last.IOTime
    IN  /\ u.den > 0 /\ 0 <= u.num /\ u.num <= 100 * u.den
        /\ ioDiff < 0 => u.num = 0
        /\ (ioDiff >= 0 /\ ioDiff * 100 <= 100 * (timeDiff * 1000))
              => u.num * (timeDiff * 10) = ioDiff * u.den
        /\ ioDiff * 100 > 100 * (timeDiff * 1000) => u.num = 100 * u.den

\* C23: the utilization calculateDiskSpeed reports lies in [0, 100]: it is
\* (current.IOTime - last.IOTime) / (timeDiff * 1000) * 100 when that is in
\* the range, 100 when it exceeds 100 and 0 when the busy-time counter
\* decreased; so is every utilization GetDiskSpeedWithInterval returns.
C23_UtilizationClamped ==
    /\ ret.fn = "calculateDiskSpeed"
          => UtilizationIsClamped(ret.speed.Utilization, ret.last, ret.current,
                                  ret.timeDiff)
    /\ (ret.fn = "GetDiskSpeedWithInterval" /\ ret.returned /\ ~ret.err)
          => \A i \in DOMAIN ret.speeds :
                UtilizationIsClamped(ret.speeds[i].Utilization,
                                     ret.prev.m[ret.speeds[i].Device],
                                     ret.cur[ret.speeds[i].Device],
                                     ret.at - ret.prevTime)

C23_Witness ==
    /\ ret.fn = "calculateDiskSpeed"
    /\ (ret.current.IOTime - ret.last.IOTime) * 100 > 100 * (ret.timeDiff * 1000)
    /\ ret.speed.Utilization = Rat(100, 1)

\* C24: a day bucket is created by the first sample of its day: every
\* persisted day bucket holds at least one record, and a sampling tick that
\* emits no sample (the elapsed-time guard rejected the interval, or every
\* interface was filtered out) and meets no write failure leaves the day
\* files as they are.
C24_BucketCreatedByFirstSample ==
    /\ [](\A b \in PersistedBuckets : b.Records # <<>>)
    /\ [][(CollectStep /\ ret'.records = <<>> /\ ret'.failed # "saveRecords")
              => files' = files]_vars

\* C26: every record a sampling tick persists carries the cumulative
\* counters of the snapshot its speeds were computed from: BytesIn and
\* BytesOut are the DownloadTotal and UploadTotal of the estimator's entry
\* for the same interface at that tick.
C26_RecordCountersAreTheSampledOnes ==
    (ret.fn = "collectOnce" /\ ret.failed = "")
        => \A i \in DOMAIN ret.records :
              \E k \in DOMAIN ret.speeds :
                  /\ ret.speeds[k].Name = ret.records[i].Interface
                  /\ ret.speeds[k].DownloadSpeed = ret.records[i].SpeedIn
                  /\ ret.speeds[k].UploadSpeed = ret.records[i].SpeedOut
                  /\ ret.speeds[k].DownloadTotal = ret.records[i].BytesIn
                  /\ ret.speeds[k].UploadTotal = ret.records[i].BytesOut

\* C25: the first call of GetDiskSpeedWithInterval, which finds no
\* baseline, waits one interval, samples again and then returns: when the
\* counter source succeeds, the sampling that follows the wait ends the
\* call with a speed list computed against the first sample.
C25_FirstDiskCallReturns ==
    [][(diskPc = "sleep" /\ ret'.fn = "GetDiskSpeedWithInterval" /\ ~ret'.err)
          => /\ diskPc' = "idle"
             /\ ret'.returned
             /\ ret'.prev.m = ret.cur]_vars

\* ------------------------------------------------------------------------
\* Claims about restarting the collector (SpecSched)
\* ------------------------------------------------------------------------

\* C27: a collector can be restarted: whenever the most recent successful
\* call is a Start (tc.isCollecting is set), the sampling loop and the
\* retention loop that Start launched are alive (at their select or in a
\* tick, so that the next interval brings a tick), also when the Start
\* follows an earlier Stop.
C27_RunningCollectorHasLiveLoops ==
    isCollecting
        => /\ collectPc[started] \in {"select", "tick"}
           /\ cleanupPc[started] \in {"select", "tick"}

\* C28: in every sequence of Start and Stop calls on one collector every
\* call returns normally: the stop channel is closed at most once, Stop
\* never panics on an already closed channel.
C28_StopNeverPanics ==
    /\ ~panicked
    /\ lastCall.ret # "panic"

\* ------------------------------------------------------------------------
\* Claims about the data directory (SpecDir)
\* ------------------------------------------------------------------------

\* C29: cleanup changes nothing except expired day files: every other entry
\* (a directory, a file with another prefix, a file whose date part does not
\* parse, a name that is not traffic_<YYYY-MM-DD>.json, anything that is not
\* a regular file, anything outside the data directory) is left as it is,
\* and a day file that is removed is dated before the cutoff.
C29_CleanupTouchesOnlyExpiredDayFiles ==
    [][ret'.fn = "cleanup"
          => /\ others' = others
             /\ \A dateStr \in DOMAIN files :
                    \/ /\ dateStr \in DOMAIN files'
                       /\ files'[dateStr] = files[dateStr]
                    \/ Before(ParseDate(dateStr), AddDate(now, 0, 0, -retentionDays),
                               location)
             /\ DOMAIN files' \subseteq DOMAIN files]_vars

\* ------------------------------------------------------------------------
\* Claims about concurrent callers of the estimator (SpecRace)
\* ------------------------------------------------------------------------

\* C22: GetRealTimeSpeed is safe for concurrent use: in every interleaving
\* of concurrent calls, the baseline counters and the baseline timestamp a
\* call computes its speeds from are the counters and the timestamp of one
\* and the same earlier snapshot; no call sees the pair
\* (lastNetworkStats, lastNetworkStatsTime) half-updated.
C22_BaselineIsOneSnapshot ==
    \A c \in Callers :
        netCalls.call[c].used
            => [stats |-> netCalls.call[c].base, time |-> netCalls.call[c].baseTime]
                  \in netCalls.snaps

\* ------------------------------------------------------------------------
\* Claims about MonitorRealTime (SpecMonitor)
\* ------------------------------------------------------------------------

\* C30: the goroutine of MonitorRealTime delivers the result of each tick on
\* exactly one of its two channels, the speeds on speedChan after a
\* successful call and the error on errorChan after a failed one; and once
\* the consumer has stopped receiving, the goroutine is never blocked for
\* good in a send: it has a step left that leads it to its end, where it
\* closes both channels.
C30_MonitorDeliversAndTerminates ==
    /\ monitor.got.chan # "none"
          => /\ monitor.got.chan \in {"speedChan", "errorChan"}
             /\ monitor.got.chan = "errorChan" <=> monitor.got.err
    /\ (monitor.consumer = "stopped" /\ monitor.pc \in {"sendErr", "sendSpeed"})
          => ENABLED MonitorGoroutine
====
